---- MODULE Spec2Model ----
(***************************************************************************)
(* A state-machine model of src/data-ingestion/blockstream_api.py: the     *)
(* retrying fetch client, the existing-work scanner, the range planner,    *)
(* the two collection loops, the signal handler and main().                *)
(*                                                                         *)
(* Durations are counted in tenths of a second, so that RATE_LIMIT_DELAY   *)
(* (5.2 s) is the integer 52.  A Python None is the string "None".         *)
(***************************************************************************)
EXTENDS Integers, Sequences, FiniteSets, TLC

\* ------------------------------------------------------------------------
\* Program constants (blockstream_api.py, lines 47-56 and literals in the code)
\* ------------------------------------------------------------------------

\* RATE_LIMIT_DELAY = 5.2 seconds, in tenths of a second
RATE_LIMIT_DELAY == 52

BATCH_SIZE == 15

RETRY_DELAY_BASE == 4

\* seconds
BURST_PROTECTION_DELAY == 10

BURST_PROTECTION_INTERVAL == 50

\* fetch_data_with_retry(..., max_retries=5, request_count=0)
max_retries == 5

DefaultRequestCount == 0

\* response.headers.get('Retry-After', 60), seconds
DefaultRetryAfter == 60

\* if failed_count > 20 (blocks), if failed_count > 10 (fee samples)
BlockFailureCeiling == 20

FeeFailureCeiling == 10

\* if (i + 1) % 50 == 0 (blocks), if (i + 1) % 20 == 0 (fee samples)
BlockCheckpointEvery == 50

FeeCheckpointEvery == 20

\* if collected_count % 30 == 0 (fee samples)
FeeBatchSize == 30

\* for _ in range(5) / for _ in range(3): the one-second steps of a batch pause
BlockPauseSteps == 5

FeePauseSteps == 3

\* max(1, current_height - blocks_per_period)
FirstHeight == 1

\* ------------------------------------------------------------------------
\* Bounds of the model
\* ------------------------------------------------------------------------

\* Spec: tip heights 1..MaxTip, lookback windows 1..MaxLookback blocks,
\* sample strides 1..MaxStride, MaxRuns consecutive invocations of main().
MaxTip == 3

MaxLookback == 2

MaxStride == 2

MaxRuns == 2

\* SpecLong: one long range, tip LongTip and lookback LongTip - 1.
LongTip == 52

\* Spec: how often upstream changes its behaviour, and how many store
\* operations fail.
MaxChanges == 2

MaxStoreFaults == 1

\* SpecLong: how often upstream changes its behaviour during the run.
LongChanges == 1

\* SpecPlan: heights that pre-existing objects may have.
MaxSeed == 4

\* The Retry-After hint (seconds) an upstream 429 may carry, when it has one.
RetryAfterHint == 5

\* ------------------------------------------------------------------------
\* Helpers
\* ------------------------------------------------------------------------

None == "None"

NoHeight == 0 - 1

\* a 429 response without a Retry-After header
NoHeader == 0 - 1

Tenths(seconds) == seconds * 10

RECURSIVE Pow(_, _)
Pow(b, e) == IF e = 0 THEN 1 ELSE b * Pow(b, e - 1)

Max(a, b) == IF a >= b THEN a ELSE b

MinOf(S) == CHOOSE x \in S : \A y \in S : x <= y

Range(s) == {s[k] : k \in DOMAIN s}

\* Python's sorted() on a set of integers
RECURSIVE sorted(_)
sorted(S) == IF S = {} THEN <<>> ELSE <<MinOf(S)>> \o sorted(S \ {MinOf(S)})

\* Python's range(start, stop, step) as a set
StridedRange(start, stop, step) ==
    {h \in start..(stop - 1) : (h - start) % step = 0}

VARIABLES
    shutdown_requested, \* the global flag of line 23
    store,              \* the bucket: object key -> stored record
    bucket_exists,      \* whether the bucket has been created
    tip,                \* upstream: the chain tip height
    lookback,           \* HISTORICAL_DAYS * 144, the lookback window in blocks
    stride,             \* FEE_SAMPLE_INTERVAL
    upstream,           \* upstream behaviour: "free", "ok", "down", "throttle"
    changes_left,       \* how often upstream may still change its behaviour
    storage,            \* object store behaviour: "faulty", "ok", "readonly"
    credentials,        \* which of the three settings of lines 36-38 are set
    store_faults_left,  \* how many store operations may still fail ("faulty")
    run,                \* number of the current invocation of main()
    pc,                 \* position of main() and of the running loop
    m,                  \* locals of main()
    loop,               \* locals of the running collection loop
    fetch,              \* the running call of fetch_data_with_retry
    fstat,              \* history of that call: requests, outcomes, sleeps
    wait,               \* the time.sleep in progress
    last_wait,          \* history: the last time.sleep that ended
    ckpt_log,           \* history: progress checkpoint writes of this run
    final_log,          \* history: final checkpoint writes of this run
    aux_log,            \* history: snapshot and summary writes of this run
    hist                \* history across runs

envvars == <<tip, lookback, stride, storage, credentials>>

storevars == <<store, bucket_exists, store_faults_left>>

upvars == <<upstream, changes_left>>

fetchvars == <<fetch, fstat, wait, last_wait, upstream, changes_left>>

logvars == <<ckpt_log, final_log, aux_log>>

vars == <<shutdown_requested, store, bucket_exists, tip, lookback, stride,
          upstream, changes_left, storage, credentials, store_faults_left, run,
          pc, m, loop, fetch, fstat, wait, last_wait, ckpt_log, final_log, aux_log, hist>>

\* ------------------------------------------------------------------------
\* time.sleep
\* ------------------------------------------------------------------------

NoWait == [kind |-> "none", len |-> 0, sig |-> FALSE]

\* time.sleep(len) is entered
Sleep(kind, len) == [kind |-> kind, len |-> len, sig |-> FALSE]

\* time.sleep returns: the whole duration has elapsed, whatever the flag
Woken(w) == [kind |-> w.kind, len |-> w.len, elapsed |-> w.len, sig |-> w.sig]

NoLastWait == [kind |-> "none", len |-> 0, elapsed |-> 0, sig |-> FALSE]

\* ------------------------------------------------------------------------
\* fetch_data_with_retry (lines 201-246)
\* ------------------------------------------------------------------------

\* line 205-209: the pacing delay of an attempt
\* a plausible bug: only retries are paced
Delay_RetriesOnly(attempt, request_count) ==
    IF attempt > 0 THEN RATE_LIMIT_DELAY * Pow(2, attempt) ELSE 0

Delay(attempt, request_count) ==
    (IF attempt > 0 THEN RATE_LIMIT_DELAY * Pow(2, attempt) ELSE RATE_LIMIT_DELAY)
    + (IF request_count > 0 /\ request_count % BURST_PROTECTION_INTERVAL = 0
       THEN Tenths(BURST_PROTECTION_DELAY) ELSE 0)

\* line 241: retry_delay = RETRY_DELAY_BASE ** (attempt + 1)
RetryDelay(attempt) == Tenths(Pow(RETRY_DELAY_BASE, attempt + 1))

\* line 218: retry_after = int(response.headers.get('Retry-After', 60))
RetryAfter(header) == IF header = NoHeader THEN DefaultRetryAfter ELSE header

\* a plausible bug: the last retry slot is never used
HasRetryLeft_OneShort(attempt) == attempt < max_retries - 2

\* line 240: whether a failed attempt is followed by a backoff and a new attempt
HasRetryLeft(attempt) == attempt < max_retries - 1

\* a plausible bug: the attempts are not bounded (while True)
InRange_Always(attempt) == TRUE

\* line 202: for attempt in range(max_retries)
InRange(attempt) == attempt < max_retries

IdleFetch == [st |-> "idle", ep |-> "none", arg_ok |-> TRUE, attempt |-> 0,
              request_count |-> 0, result |-> "pending"]

NoStat == [requests |-> 0, n429 |-> 0, nerr |-> 0, acc |-> 0, gap |-> 0,
           prev_gap |-> 0, after_flag |-> 0]

\* How upstream may behave during the next call: as before, or, while it may
\* still change, in any of the uniform ways.
NextModes ==
    IF upstream = "free" \/ changes_left = 0 THEN {upstream}
    ELSE {"ok", "down", "throttle"}

\* The call: enters the loop and the first pacing sleep.
BeginFetch(ep, arg_ok, request_count) ==
    /\ fetch' = [st |-> "pace", ep |-> ep, arg_ok |-> arg_ok, attempt |-> 0,
                 request_count |-> request_count, result |-> "pending"]
    /\ fstat' = NoStat
    /\ wait' = Sleep("pace", Delay(0, request_count))
    /\ last_wait' = NoLastWait
    /\ \E mode \in NextModes :
        /\ upstream' = mode
        /\ changes_left' = IF mode # upstream /\ changes_left > 0
                           THEN changes_left - 1 ELSE changes_left

\* The wrappers of lines 248-266 pass no request_count: the default is used.
get_current_block_height == BeginFetch("height", TRUE, DefaultRequestCount)

get_block_hash_by_height == BeginFetch("hash", TRUE, DefaultRequestCount)

get_block_data(block_hash) ==
    BeginFetch("block", block_hash # None, DefaultRequestCount)

get_fee_estimates == BeginFetch("fees", TRUE, DefaultRequestCount)

get_mempool_data == BeginFetch("mempool", TRUE, DefaultRequestCount)

\* What upstream may answer to one request.  /block/None names no block, so
\* it is never answered with a body.
Responses ==
    LET all == {[kind |-> "ok", header |-> NoHeader], [kind |-> "err", header |-> NoHeader]}
               \cup {[kind |-> "429", header |-> h] : h \in {RetryAfterHint, NoHeader}}
        byMode == CASE upstream = "ok"       -> {r \in all : r.kind = "ok"}
                    [] upstream = "down"     -> {r \in all : r.kind = "err"}
                    [] upstream = "throttle" -> {r \in all : r.kind = "429" /\ r.header = NoHeader}
                    [] OTHER                 -> all
    IN  IF fetch.arg_ok THEN byMode
        ELSE IF upstream = "ok" THEN {[kind |-> "err", header |-> NoHeader]}
        ELSE {r \in byMode : r.kind # "ok"}

\* Lines 212-246 of one attempt: the pacing sleep ends, the request is issued
\* and its outcome classified.
FetchRequest ==
    /\ fetch.st = "pace"
    /\ \E resp \in Responses :
        LET slept == fstat.acc + wait.len
            stat  == [fstat EXCEPT !.requests = @ + 1,
                                   !.prev_gap = fstat.gap,
                                   !.gap = slept,
                                   !.acc = 0]
        IN
        /\ last_wait' = Woken(wait)
        /\ CASE resp.kind = "429" ->
                  \* lines 217-221: sleep retry_after, continue
                  /\ fetch' = [fetch EXCEPT !.st = "post"]
                  /\ fstat' = [stat EXCEPT !.n429 = @ + 1]
                  /\ wait' = Sleep("throttle", Tenths(RetryAfter(resp.header)))
             [] resp.kind = "err" /\ HasRetryLeft(fetch.attempt) ->
                  \* lines 240-243: backoff sleep
                  /\ fetch' = [fetch EXCEPT !.st = "post"]
                  /\ fstat' = [stat EXCEPT !.nerr = @ + 1]
                  /\ wait' = Sleep("backoff", RetryDelay(fetch.attempt))
             [] resp.kind = "err" /\ ~HasRetryLeft(fetch.attempt) ->
                  \* lines 244-246: raise
                  /\ fetch' = [fetch EXCEPT !.st = "done", !.result = "raise"]
                  /\ fstat' = [stat EXCEPT !.nerr = @ + 1]
                  /\ wait' = NoWait
             [] OTHER ->
                  \* lines 223-237: return data
                  /\ fetch' = [fetch EXCEPT !.st = "done", !.result = "data"]
                  /\ fstat' = stat
                  /\ wait' = NoWait
    /\ UNCHANGED <<shutdown_requested, storevars, envvars, upvars,
                   run, pc, m, loop, logvars, hist>>

\* The sleep after a 429 or a failed attempt ends; the for loop takes its
\* next attempt, or is exhausted and the function returns None (line 246 is
\* the last statement of the function).
FetchNextAttempt ==
    /\ fetch.st = "post"
    /\ last_wait' = Woken(wait)
    /\ IF InRange(fetch.attempt + 1)
       THEN /\ fetch' = [fetch EXCEPT !.st = "pace", !.attempt = @ + 1]
            /\ wait' = Sleep("pace", Delay(fetch.attempt + 1, fetch.request_count))
            /\ fstat' = [fstat EXCEPT !.acc = @ + wait.len,
                                      !.after_flag = @ + (IF shutdown_requested THEN 1 ELSE 0)]
       ELSE /\ fetch' = [fetch EXCEPT !.st = "done", !.result = None]
            /\ wait' = NoWait
            /\ fstat' = [fstat EXCEPT !.acc = @ + wait.len]
    /\ UNCHANGED <<shutdown_requested, storevars, envvars, upvars,
                   run, pc, m, loop, logvars, hist>>

FetchDone == fetch.st = "done"

\* The caller has taken the result and makes no further call in this step.
NoFetch ==
    /\ fetch' = IdleFetch
    /\ fstat' = NoStat
    /\ last_wait' = NoLastWait
    /\ UNCHANGED upvars

\* ------------------------------------------------------------------------
\* The object store (lines 95-169)
\* ------------------------------------------------------------------------

\* object names: f"blocks/height_{height}.json" (line 366) and
\* f"fees/historical/height_{height}_fees.json" (line 480)
block_object_path(height) == <<"blocks/height_", height>>

fee_object_path(height) == <<"fees/historical/height_", height>>

\* snapshot and summary objects are named by the time of the write; the
\* program never reads them
mempool_object_path == "mempool/mempool_snapshot"

current_fee_object_path == "fees/current/fee_estimates"

summary_object_path == "metadata/collection_summary"

\* a stored record: the block hash, the payload, the fee estimates
Record(block_hash, data, fee_estimates) ==
    [block_hash |-> block_hash, data |-> data, fee_estimates |-> fee_estimates]

\* put_object: the object at the key is created or replaced
Put(s, key, value) ==
    [k \in DOMAIN s \cup {key} |-> IF k = key THEN value ELSE s[k]]

Count(w, key) == IF key \in DOMAIN w THEN w[key] ELSE 0

\* whether put_object of a unit's record succeeds
PutOutcomes == CASE storage = "ok" -> {TRUE}
                 [] storage = "readonly" -> {FALSE}
                 [] OTHER -> IF store_faults_left > 0 THEN BOOLEAN ELSE {TRUE}

\* whether bucket_exists / list_objects succeeds
ReadOutcomes ==
    IF storage = "faulty" /\ store_faults_left > 0 THEN BOOLEAN ELSE {TRUE}

\* a store operation has failed: a "faulty" store has one fault less left
AfterStoreFaults(n) ==
    IF storage = "faulty" THEN store_faults_left - n ELSE store_faults_left

\* whether the token request of authenticate() succeeds
CredentialNames == {"CLIENT_ID", "CLIENT_SECRET", "TOKEN_URL"}

AllSet == [name \in CredentialNames |-> TRUE]

\* validate_credentials (lines 58-69): TRUE when it returns, FALSE when it
\* raises ValueError
validate_credentials(environment) ==
    /\ environment["CLIENT_ID"]
    /\ environment["CLIENT_SECRET"]
    /\ environment["TOKEN_URL"]

AuthOutcomes == IF upstream # "free" /\ changes_left > 0 THEN BOOLEAN ELSE {TRUE}

\* a plausible bug: the record is serialised but never put
save_to_minio_Dropped(s, data, object_name, put_ok) == s

\* save_to_minio (lines 145-169): the store after the call; the call returns
\* put_ok, having logged and swallowed any error
save_to_minio(s, data, object_name, put_ok) ==
    IF put_ok THEN Put(s, object_name, data) ELSE s

\* a plausible bug: the scanner looks under the wrong prefix and finds nothing
get_existing_block_heights_WrongPrefix(s, list_ok) ==
    IF list_ok
    THEN {k[2] : k \in {x \in DOMAIN s : x[1] = "block/height_"}}
    ELSE {}

\* get_existing_block_heights (lines 102-121)
get_existing_block_heights(s, list_ok) ==
    IF list_ok
    THEN {k[2] : k \in {x \in DOMAIN s : x[1] = "blocks/height_"}}
    ELSE {}

\* a plausible bug: the fee scanner looks under the wrong prefix
get_existing_fee_data_points_WrongPrefix(s, list_ok) ==
    IF list_ok
    THEN {k[2] : k \in {x \in DOMAIN s : x[1] = "fees/height_"}}
    ELSE {}

\* get_existing_fee_data_points (lines 123-143)
get_existing_fee_data_points(s, list_ok) ==
    IF list_ok
    THEN {k[2] : k \in {x \in DOMAIN s : x[1] = "fees/historical/height_"}}
    ELSE {}

\* ------------------------------------------------------------------------
\* calculate_historical_ranges (lines 268-299), after the tip fetch
\* ------------------------------------------------------------------------

\* a plausible bug: the start height is not held at the first height
StartHeight_NoFloor(current_height, blocks_per_period) ==
    current_height - blocks_per_period

StartHeight(current_height, blocks_per_period) ==
    Max(FirstHeight, current_height - blocks_per_period)

\* a plausible bug: the range stops short of the tip (range(start, current))
BlocksToCollect_ExcludesTip(start_height, current_height, existing_block_heights) ==
    sorted((start_height..(current_height - 1)) \ existing_block_heights)

BlocksToCollect(start_height, current_height, existing_block_heights) ==
    sorted((start_height..current_height) \ existing_block_heights)

FeeHeightsToCollect(start_height, current_height, sample_interval, existing_fee_heights) ==
    sorted(StridedRange(start_height, current_height + 1, sample_interval)
           \ existing_fee_heights)

calculate_historical_ranges(current_height, blocks_per_period, sample_interval, existing_block_heights, existing_fee_heights) ==
    LET start_height == StartHeight(current_height, blocks_per_period)
    IN  [start_height |-> start_height,
         end_height |-> current_height,
         blocks_to_collect |->
             BlocksToCollect(start_height, current_height, existing_block_heights),
         fee_heights_to_collect |->
             FeeHeightsToCollect(start_height, current_height, sample_interval,
                                 existing_fee_heights)]

\* ------------------------------------------------------------------------
\* The collection loops: collect_historical_block_data (lines 323-424) and
\* collect_historical_fee_data (lines 426-536), told apart by loop.kind
\* ------------------------------------------------------------------------

\* a plausible bug: the record is saved after the first call of the unit
Calls_One(kind) == 1

\* request_count += 2 / request_count += 3
Calls(kind) == IF kind = "block" THEN 2 ELSE 3

\* a plausible bug: the first failed unit stops the loop
Ceiling_Zero(kind) == 0

\* a plausible bug: the two loops use each other's ceiling
Ceiling_Swapped(kind) ==
    IF kind = "block" THEN FeeFailureCeiling ELSE BlockFailureCeiling

Ceiling(kind) == IF kind = "block" THEN BlockFailureCeiling ELSE FeeFailureCeiling

CheckpointEvery(kind) ==
    IF kind = "block" THEN BlockCheckpointEvery ELSE FeeCheckpointEvery

BatchSize(kind) == IF kind = "block" THEN BATCH_SIZE ELSE FeeBatchSize

PauseSteps(kind) == IF kind = "block" THEN BlockPauseSteps ELSE FeePauseSteps

CheckpointType(kind) ==
    IF kind = "block" THEN "block_collection" ELSE "fee_collection"

\* a plausible bug: the final checkpoint is written under the progress kind
FinalCheckpointType_Progress(kind) == CheckpointType(kind)

FinalCheckpointType(kind) ==
    IF kind = "block" THEN "block_collection_final" ELSE "fee_collection_final"

UnitPath(kind, height) ==
    IF kind = "block" THEN block_object_path(height) ELSE fee_object_path(height)

\* lines 338 and 439: 'last_collected_height' of the shutdown checkpoint
LastCollectedAtShutdown(kind, height, i) ==
    IF i > 0
    THEN (IF kind = "block" THEN height - 1 ELSE height - stride)
    ELSE NoHeight

\* line 421: 'completed_gracefully': not shutdown_requested
CompletedGracefully(flag, exit) == ~flag

InitLoop == [kind |-> "none", i |-> 0, collected_count |-> 0,
             failed_count |-> 0, request_count |-> 0, step |-> 0,
             block_hash |-> None, fee_estimates |-> None, pause_k |-> 0,
             exit |-> "none", written |-> 0, attempted |-> <<>>,
             ckpt_fresh |-> FALSE,
             first_try |-> TRUE, calls |-> 0, paced |-> 0]

InitMain == [existing_block_heights |-> {}, existing_fee_heights |-> {},
             start_height |-> 0, end_height |-> 0,
             blocks_to_collect |-> <<>>, fee_heights_to_collect |-> <<>>,
             block_collected |-> 0, block_failed |-> 0,
             fee_collected |-> 0, fee_failed |-> 0,
             mempool_success |-> FALSE, fee_success |-> FALSE,
             final_status |-> "none"]

\* the work list the running loop was called with
Work == IF loop.kind = "block" THEN m.blocks_to_collect
        ELSE m.fee_heights_to_collect

\* a plausible bug: the work list is walked from its end
Height_FromEnd == Work[Len(Work) - loop.i]

\* for i, height in enumerate(...): the height at position i
Height == Work[loop.i + 1]

\* the first call of a unit: get_block_hash_by_height (line 349) or
\* get_fee_estimates (line 450)
FirstCall(kind) ==
    IF kind = "block" THEN get_block_hash_by_height ELSE get_fee_estimates

\* the call after step: lines 356, 457, 463
NextCall(kind, step, block_hash) ==
    IF kind = "fee" /\ step = 1 THEN get_block_hash_by_height
    ELSE get_block_data(block_hash)

\* line 312: f"checkpoints/{checkpoint_type}_checkpoint_{timestamp_str}.json",
\* timestamp_str being the clock read to the second (line 311)
checkpoint_path(checkpoint_type, timestamp_str) ==
    <<"checkpoints/", checkpoint_type, "_checkpoint_", timestamp_str>>

\* The clock second of the last progress checkpoint write of the run.  The
\* seconds are numbered in the order in which checkpoints fall into them.
LastStamp == IF ckpt_log = <<>> THEN 0 ELSE ckpt_log[Len(ckpt_log)].timestamp

\* The seconds datetime.now() may show at a checkpoint write: a later one
\* when a time.sleep has ended since the last write, else also the same one.
Stamps(fresh) == IF fresh THEN {LastStamp, LastStamp + 1} ELSE {LastStamp + 1}

\* the checkpoint with its time and its object name (lines 306-312)
Stamped(checkpoint, timestamp) ==
    checkpoint @@ [timestamp |-> timestamp,
                   path |-> checkpoint_path(checkpoint.checkpoint_type, timestamp)]

\* save_progress_checkpoint (lines 301-321) for a progress checkpoint
ProgressCheckpoint(kind, why, last_collected_height, collected_count, remaining) ==
    [checkpoint_type |-> CheckpointType(kind),
     why |-> why,
     last_collected_height |-> last_collected_height,
     collected_count |-> collected_count,
     failed_count |-> loop.failed_count,
     remaining |-> remaining,
     shutdown_requested |-> shutdown_requested,
     i |-> loop.i]

\* Top of an iteration (lines 333-349, 434-450): the for loop is exhausted,
\* or the flag is seen and the shutdown checkpoint written, or the unit's
\* first call is made.
LoopTop ==
    /\ pc = "top"
    /\ IF loop.i >= Len(Work)
       THEN /\ pc' = "final"
            /\ loop' = [loop EXCEPT !.exit = "exhausted"]
            /\ UNCHANGED <<fetchvars, ckpt_log>>
       ELSE IF shutdown_requested
       THEN /\ \E timestamp \in Stamps(loop.ckpt_fresh) :
                 ckpt_log' = Append(ckpt_log,
                     Stamped(ProgressCheckpoint(loop.kind, "shutdown",
                                 LastCollectedAtShutdown(loop.kind, Height, loop.i),
                                 loop.collected_count, Len(Work) - loop.i),
                             timestamp))
            /\ pc' = "final"
            /\ loop' = [loop EXCEPT !.exit = "shutdown_top"]
            /\ UNCHANGED fetchvars
       ELSE /\ loop' = [loop EXCEPT !.request_count = @ + Calls(loop.kind),
                                     !.step = 1,
                                     !.block_hash = None,
                                     !.fee_estimates = None,
                                     !.attempted = Append(@, Height),
                                     !.ckpt_fresh = FALSE]
            /\ FirstCall(loop.kind)
            /\ pc' = "call"
            /\ UNCHANGED ckpt_log
    /\ UNCHANGED <<shutdown_requested, storevars, envvars, run, m,
                   final_log, aux_log, hist>>

\* History of the loop: while every call so far was answered with data on
\* its first attempt, their number and the sum of the sleeps of line 212
\* before them.
Tally(l) ==
    IF l.first_try /\ fetch.result = "data" /\ fstat.requests = 1
    THEN [l EXCEPT !.calls = @ + 1, !.paced = @ + fstat.gap]
    ELSE [l EXCEPT !.first_try = FALSE, !.calls = 0, !.paced = 0]

\* The except clause (lines 400-410, 513-522).
Except ==
    LET failed == loop.failed_count + 1
    IN  /\ NoFetch
        /\ IF failed > Ceiling(loop.kind)
           THEN /\ loop' = Tally([loop EXCEPT !.failed_count = failed, !.exit = "abort"])
                /\ pc' = "final"
                /\ wait' = NoWait
           ELSE IF ~shutdown_requested
           THEN /\ loop' = Tally([loop EXCEPT !.failed_count = failed])
                /\ pc' = "errpause"
                /\ wait' = Sleep("error", Tenths(1))
           ELSE /\ loop' = Tally([loop EXCEPT !.failed_count = failed,
                                               !.i = @ + 1, !.step = 0])
                /\ pc' = "top"
                /\ wait' = NoWait
        /\ hist' = [hist EXCEPT !.faults = TRUE,
                                !.failed_after_flag = @ \/ fstat.after_flag > 0]
        /\ UNCHANGED <<store, store_faults_left, ckpt_log>>

\* A call other than the unit's last has returned (lines 349-354, 450-461).
Between ==
    LET res   == fetch.result
        loop1 == IF loop.kind = "fee" /\ loop.step = 1
                 THEN [loop EXCEPT !.fee_estimates = res]
                 ELSE [loop EXCEPT !.block_hash = res]
    IN  /\ IF shutdown_requested
           THEN /\ loop' = Tally([loop1 EXCEPT !.exit = "shutdown_mid"])
                /\ pc' = "final"
                /\ NoFetch
                /\ wait' = NoWait
           ELSE /\ loop' = Tally([loop1 EXCEPT !.step = @ + 1])
                /\ NextCall(loop.kind, loop.step, loop1.block_hash)
                /\ pc' = "call"
        /\ hist' = [hist EXCEPT !.faults = @ \/ res # "data"]
        /\ UNCHANGED <<store, store_faults_left, ckpt_log>>

\* The unit's last call has returned (lines 356-398, 463-511): the record is
\* saved, the unit counted, the periodic checkpoint written, the batch pause
\* entered.
Collected ==
    LET res    == fetch.result
        path   == UnitPath(loop.kind, Height)
        record == Record(loop.block_hash, res,
                         IF loop.kind = "fee" THEN loop.fee_estimates ELSE "n/a")
        due    == (loop.i + 1) % CheckpointEvery(loop.kind) = 0
    IN  \E put_ok \in PutOutcomes :
        \* lines 367-369, 481-483: the value save_to_minio returns is not used
        LET count == loop.collected_count + 1
            lp    == [loop EXCEPT !.collected_count = count,
                                  !.written = @ + (IF put_ok THEN 1 ELSE 0),
                                  !.ckpt_fresh = due]
        IN
        /\ store' = save_to_minio(store, record, path, put_ok)
        /\ store_faults_left' = AfterStoreFaults(IF put_ok THEN 0 ELSE 1)
        /\ ckpt_log' = IF due
                       THEN Append(ckpt_log,
                                Stamped(ProgressCheckpoint(loop.kind, "periodic",
                                                           Height, count, NoHeight),
                                        LastStamp + 1))
                       ELSE ckpt_log
        /\ IF count % BatchSize(loop.kind) = 0
           THEN /\ loop' = Tally([lp EXCEPT !.pause_k = 0])
                /\ pc' = "pause"
           ELSE /\ loop' = Tally([lp EXCEPT !.i = @ + 1, !.step = 0])
                /\ pc' = "top"
        /\ NoFetch
        /\ wait' = NoWait
        /\ hist' = [hist EXCEPT
                       !.faults = @ \/ res # "data" \/ ~put_ok,
                       !.writes = IF put_ok THEN Put(@, path, Count(@, path) + 1)
                                  ELSE @]

\* A call of the unit's sequence has ended (by return or by raising).
LoopAfterFetch ==
    /\ pc = "call"
    /\ FetchDone
    /\ IF fetch.result = "raise"
          \* block_data.get(...) on None raises AttributeError (line 471)
          \/ (loop.kind = "fee" /\ loop.step = Calls("fee") /\ fetch.result = None)
       THEN Except
       ELSE IF loop.step < Calls(loop.kind)
       THEN Between
       ELSE Collected
    /\ UNCHANGED <<shutdown_requested, bucket_exists, envvars, run, m, final_log,
                   aux_log>>

\* a plausible bug: the failed unit is taken again after the pause
LoopErrorPauseEnd_SameUnit ==
    /\ pc = "errpause"
    /\ loop' = [loop EXCEPT !.step = 0]
    /\ pc' = "top"
    /\ last_wait' = Woken(wait)
    /\ wait' = NoWait
    /\ UNCHANGED <<shutdown_requested, storevars, envvars, upvars,
                   run, m, fetch, fstat, logvars, hist>>

\* The time.sleep(1) of the except clause ends (lines 409-410, 521-522).
LoopErrorPauseEnd ==
    /\ pc = "errpause"
    /\ loop' = [loop EXCEPT !.i = @ + 1, !.step = 0]
    /\ pc' = "top"
    /\ last_wait' = Woken(wait)
    /\ wait' = NoWait
    /\ UNCHANGED <<shutdown_requested, storevars, envvars, upvars,
                   run, m, fetch, fstat, logvars, hist>>

\* a plausible bug: the pause is slept through and the flag is looked at
\* at the top of the next unit only
LoopPause_SleptThrough ==
    /\ pc = "pause"
    /\ IF loop.pause_k < PauseSteps(loop.kind)
       THEN /\ loop' = [loop EXCEPT !.pause_k = @ + 1, !.ckpt_fresh = FALSE]
            /\ pc' = "pause"
       ELSE /\ loop' = [loop EXCEPT !.i = @ + 1, !.step = 0, !.pause_k = 0]
            /\ pc' = "top"
    /\ UNCHANGED <<shutdown_requested, storevars, envvars, run, m,
                   fetchvars, logvars, hist>>

\* One step of the batch pause (lines 391-398, 504-511).
LoopPause ==
    /\ pc = "pause"
    /\ IF loop.pause_k < PauseSteps(loop.kind)
       THEN IF shutdown_requested
            THEN /\ loop' = [loop EXCEPT !.exit = "shutdown_pause"]
                 /\ pc' = "final"
            ELSE /\ loop' = [loop EXCEPT !.pause_k = @ + 1, !.ckpt_fresh = FALSE]
                 /\ pc' = "pause"
       ELSE IF shutdown_requested
            THEN /\ loop' = [loop EXCEPT !.exit = "shutdown_pause"]
                 /\ pc' = "final"
            ELSE /\ loop' = [loop EXCEPT !.i = @ + 1, !.step = 0, !.pause_k = 0]
                 /\ pc' = "top"
    /\ UNCHANGED <<shutdown_requested, storevars, envvars, run, m,
                   fetchvars, logvars, hist>>

\* The final checkpoint and the return to main (lines 412-424, 524-536).
LoopFinal ==
    /\ pc = "final"
    /\ final_log' = Append(final_log,
           [checkpoint_type |-> FinalCheckpointType(loop.kind),
            collected_count |-> loop.collected_count,
            failed_count |-> loop.failed_count,
            total_requests |-> loop.request_count,
            completed_gracefully |-> CompletedGracefully(shutdown_requested, loop.exit),
            shutdown_requested |-> shutdown_requested,
            exit |-> loop.exit])
    /\ IF loop.kind = "block"
       THEN /\ m' = [m EXCEPT !.block_collected = loop.collected_count,
                               !.block_failed = loop.failed_count]
            /\ pc' = "fee_gate"
       ELSE /\ m' = [m EXCEPT !.fee_collected = loop.collected_count,
                               !.fee_failed = loop.failed_count]
            /\ pc' = "summary"
    /\ loop' = InitLoop
    /\ UNCHANGED <<shutdown_requested, storevars, envvars, run,
                   fetchvars, ckpt_log, aux_log, hist>>

\* ------------------------------------------------------------------------
\* main (lines 584-676)
\* ------------------------------------------------------------------------

\* Lines 591-609: initialize_minio, the two scans, authenticate, and the
\* first snapshot call unless the flag is set.
MainStartup ==
    /\ pc = "start"
    /\ \E init_ok \in ReadOutcomes, blocks_ok \in ReadOutcomes,
          fees_ok \in ReadOutcomes, auth_ok \in AuthOutcomes :
        LET failures == (IF init_ok THEN 0 ELSE 1) + (IF blocks_ok THEN 0 ELSE 1)
                        + (IF fees_ok THEN 0 ELSE 1)
        IN
        /\ failures <= Max(store_faults_left, 0)
        /\ init_ok \/ (blocks_ok /\ fees_ok /\ auth_ok)
        /\ validate_credentials(credentials) \/ auth_ok
        /\ bucket_exists' = (bucket_exists \/ init_ok)
        /\ store_faults_left' = AfterStoreFaults(failures)
        /\ hist' = [hist EXCEPT
                       !.faults = @ \/ ~init_ok \/ ~blocks_ok
                                    \/ ~fees_ok \/ ~auth_ok,
                       !.token_posted =
                           init_ok /\ validate_credentials(credentials)]
        /\ IF ~init_ok \/ ~auth_ok \/ ~validate_credentials(credentials)
           THEN /\ pc' = "failed"
                /\ m' = m
                /\ UNCHANGED <<fetch, fstat, wait, last_wait, upstream>>
                /\ changes_left' = IF auth_ok THEN changes_left
                                   ELSE changes_left - 1
           ELSE /\ m' = [m EXCEPT
                           !.existing_block_heights =
                               get_existing_block_heights(store, blocks_ok),
                           !.existing_fee_heights =
                               get_existing_fee_data_points(store, fees_ok)]
                /\ IF ~shutdown_requested
                   THEN get_mempool_data /\ pc' = "mempool"
                   ELSE get_current_block_height /\ pc' = "tip"
    /\ UNCHANGED <<shutdown_requested, store, envvars, run, loop, logvars>>

\* collect_current_mempool_data (lines 538-559) after its call, then the
\* call of collect_current_fee_data.
MainAfterMempool ==
    /\ pc = "mempool"
    /\ FetchDone
    /\ aux_log' = IF fetch.result = "raise" THEN aux_log
                  ELSE Append(aux_log, mempool_object_path)
    /\ hist' = [hist EXCEPT !.faults = @ \/ fetch.result # "data"]
    /\ m' = [m EXCEPT !.mempool_success = (fetch.result # "raise")]
    /\ get_fee_estimates
    /\ pc' = "curfee"
    /\ UNCHANGED <<shutdown_requested, storevars, envvars, run, loop,
                   ckpt_log, final_log>>

\* collect_current_fee_data (lines 561-582) after its call, then the tip
\* call of calculate_historical_ranges (line 270).
MainAfterCurrentFee ==
    /\ pc = "curfee"
    /\ FetchDone
    /\ aux_log' = IF fetch.result = "raise" THEN aux_log
                  ELSE Append(aux_log, current_fee_object_path)
    /\ hist' = [hist EXCEPT !.faults = @ \/ fetch.result # "data"]
    /\ m' = [m EXCEPT !.fee_success = (fetch.result # "raise")]
    /\ get_current_block_height
    /\ pc' = "tip"
    /\ UNCHANGED <<shutdown_requested, storevars, envvars, run, loop,
                   ckpt_log, final_log>>

\* calculate_historical_ranges after the tip call: a raised error, or None
\* (None - blocks_per_period raises TypeError), ends main; a height is
\* planned from.
MainAfterTip ==
    /\ pc = "tip"
    /\ FetchDone
    /\ IF fetch.result # "data"
       THEN /\ pc' = "failed"
            /\ m' = m
       ELSE LET plan == calculate_historical_ranges(tip, lookback, stride,
                            m.existing_block_heights, m.existing_fee_heights)
            IN  /\ m' = [m EXCEPT
                           !.start_height = plan.start_height,
                           !.end_height = plan.end_height,
                           !.blocks_to_collect = plan.blocks_to_collect,
                           !.fee_heights_to_collect = plan.fee_heights_to_collect]
                /\ pc' = "blk_gate"
    /\ NoFetch
    /\ wait' = NoWait
    /\ hist' = [hist EXCEPT !.faults = @ \/ fetch.result # "data"]
    /\ UNCHANGED <<shutdown_requested, storevars, envvars, run, loop,
                   logvars>>

\* Lines 622-630.
MainBlockGate ==
    /\ pc = "blk_gate"
    /\ IF m.blocks_to_collect # <<>> /\ ~shutdown_requested
       THEN /\ loop' = [InitLoop EXCEPT !.kind = "block"]
            /\ pc' = "top"
       ELSE /\ loop' = loop
            /\ pc' = "fee_gate"
    /\ UNCHANGED <<shutdown_requested, storevars, envvars, run, m,
                   fetchvars, logvars, hist>>

\* a plausible bug: the fee loop is skipped once the block loop gave up
MainFeeGate_SkipAfterAbort ==
    /\ pc = "fee_gate"
    /\ IF /\ m.fee_heights_to_collect # <<>>
          /\ ~shutdown_requested
          /\ m.block_failed <= BlockFailureCeiling
       THEN /\ loop' = [InitLoop EXCEPT !.kind = "fee"]
            /\ pc' = "top"
       ELSE /\ loop' = loop
            /\ pc' = "summary"
    /\ UNCHANGED <<shutdown_requested, storevars, envvars, run, m,
                   fetchvars, logvars, hist>>

\* Lines 632-640.
MainFeeGate ==
    /\ pc = "fee_gate"
    /\ IF m.fee_heights_to_collect # <<>> /\ ~shutdown_requested
       THEN /\ loop' = [InitLoop EXCEPT !.kind = "fee"]
            /\ pc' = "top"
       ELSE /\ loop' = loop
            /\ pc' = "summary"
    /\ UNCHANGED <<shutdown_requested, storevars, envvars, run, m,
                   fetchvars, logvars, hist>>

\* a plausible bug: the summary always reports a completed collection
MainSummary_AlwaysCompleted ==
    /\ pc = "summary"
    /\ m' = [m EXCEPT !.final_status = "completed"]
    /\ aux_log' = Append(aux_log, summary_object_path)
    /\ pc' = "done"
    /\ UNCHANGED <<shutdown_requested, storevars, envvars, run, loop,
                   fetchvars, ckpt_log, final_log, hist>>

\* Lines 642-670.
MainSummary ==
    /\ pc = "summary"
    /\ m' = [m EXCEPT !.final_status = IF ~shutdown_requested THEN "completed"
                                       ELSE "stopped_gracefully"]
    /\ aux_log' = Append(aux_log, summary_object_path)
    /\ pc' = "done"
    /\ UNCHANGED <<shutdown_requested, storevars, envvars, run, loop,
                   fetchvars, ckpt_log, final_log, hist>>

\* ------------------------------------------------------------------------
\* signal_handler (lines 25-30)
\* ------------------------------------------------------------------------

\* a plausible bug: the handler flips the flag instead of setting it
signal_handler_Toggle ==
    /\ pc \notin {"done", "failed"}
    /\ shutdown_requested' = ~shutdown_requested
    /\ wait' = IF wait.kind # "none" /\ ~shutdown_requested
               THEN [wait EXCEPT !.sig = TRUE] ELSE wait
    /\ UNCHANGED <<storevars, envvars, upvars, run, pc, m, loop,
                   fetch, fstat, last_wait, logvars, hist>>

signal_handler ==
    /\ pc \notin {"done", "failed"}
    /\ shutdown_requested' = TRUE
    /\ wait' = IF wait.kind # "none" /\ ~shutdown_requested
               THEN [wait EXCEPT !.sig = TRUE] ELSE wait
    /\ UNCHANGED <<storevars, envvars, upvars, run, pc, m, loop,
                   fetch, fstat, last_wait, logvars, hist>>

\* ------------------------------------------------------------------------
\* The environment
\* ------------------------------------------------------------------------

CompletedBlocks == get_existing_block_heights(store, TRUE)

CompletedFees == get_existing_fee_data_points(store, TRUE)

\* The process has ended and the script is invoked again, against the same
\* store and the same upstream.
NewRun ==
    /\ pc \in {"done", "failed"}
    /\ run < MaxRuns
    /\ run' = run + 1
    /\ pc' = "start"
    /\ shutdown_requested' = FALSE
    /\ m' = InitMain
    /\ loop' = InitLoop
    /\ fetch' = IdleFetch
    /\ fstat' = NoStat
    /\ wait' = NoWait
    /\ last_wait' = NoLastWait
    /\ ckpt_log' = <<>>
    /\ final_log' = <<>>
    /\ aux_log' = <<>>
    /\ hist' = [hist EXCEPT
                   !.failed_after_flag = FALSE,
                   !.token_posted = FALSE,
                   !.prev = Append(@, [interrupted |-> shutdown_requested,
                                       outcome |-> pc,
                                       block_collected |-> m.block_collected,
                                       fee_collected |-> m.fee_collected,
                                       blocks |-> CompletedBlocks,
                                       fees |-> CompletedFees])]
    /\ UNCHANGED <<storevars, envvars, upvars>>

\* ------------------------------------------------------------------------
\* Specifications
\* ------------------------------------------------------------------------

EmptyStore == [k \in {} |-> None]

InitHist == [faults |-> FALSE, writes |-> EmptyStore,
             failed_after_flag |-> FALSE, token_posted |-> FALSE,
             prev |-> <<>>]

InitProcess ==
    /\ shutdown_requested = FALSE
    /\ store = EmptyStore
    /\ bucket_exists = FALSE
    /\ run = 1
    /\ pc = "start"
    /\ m = InitMain
    /\ loop = InitLoop
    /\ fetch = IdleFetch
    /\ fstat = NoStat
    /\ wait = NoWait
    /\ last_wait = NoLastWait
    /\ ckpt_log = <<>>
    /\ final_log = <<>>
    /\ aux_log = <<>>
    /\ hist = InitHist

\* Short ranges; upstream answers in one of the uniform ways and changes its
\* way at most MaxChanges times, between two calls; at most MaxStoreFaults
\* store operations fail; MaxRuns invocations.
Init ==
    /\ InitProcess
    /\ tip \in 1..MaxTip
    /\ lookback \in 1..MaxLookback
    /\ stride \in 1..MaxStride
    /\ upstream = "ok"
    /\ changes_left = MaxChanges
    /\ storage = "faulty"
    /\ credentials = AllSet
    /\ store_faults_left = MaxStoreFaults

Fetching == FetchRequest \/ FetchNextAttempt

\* The steps of a loop below its first batch pause: a range of at most
\* MaxTip units ends before collected_count reaches a batch (lines 390, 503).
LoopingShort == LoopTop \/ LoopAfterFetch \/ LoopErrorPauseEnd \/ LoopFinal

Looping == LoopingShort \/ LoopPause

Main == MainStartup \/ MainAfterMempool \/ MainAfterCurrentFee \/ MainAfterTip
        \/ MainBlockGate \/ MainFeeGate \/ MainSummary

Next == Fetching \/ LoopingShort \/ Main \/ signal_handler \/ NewRun

Spec == Init /\ [][Next]_vars

\* One invocation over a short range in which the process keeps running:
\* every sleep ends and every request is answered or times out (line 215,
\* timeout=30), so a step of the program that is possible is eventually
\* taken.  Signals stay arbitrary.
\* As Init, with any of the three settings missing.
InitStart ==
    /\ InitProcess
    /\ tip \in 1..MaxTip
    /\ lookback \in 1..MaxLookback
    /\ stride \in 1..MaxStride
    /\ upstream = "ok"
    /\ changes_left = MaxChanges
    /\ storage = "faulty"
    /\ credentials \in [CredentialNames -> BOOLEAN]
    /\ store_faults_left = MaxStoreFaults

NextOnce == Fetching \/ LoopingShort \/ Main \/ signal_handler

SpecStart == InitStart /\ [][NextOnce]_vars

SpecLive == Init /\ [][NextOnce]_vars /\ WF_vars(Fetching \/ LoopingShort \/ Main)

\* One long range, one invocation; upstream and the store behave uniformly,
\* upstream changing its behaviour at most LongChanges times.
InitLong ==
    /\ InitProcess
    /\ tip = LongTip
    /\ lookback = LongTip - 1
    /\ stride = 2
    /\ upstream = "ok"
    /\ changes_left = LongChanges
    /\ storage \in {"ok", "readonly"}
    /\ credentials = AllSet
    /\ store_faults_left = 0

NextLong == Fetching \/ Looping \/ Main \/ signal_handler

\* One run over 30 blocks and 30 fee samples: both batch pauses are taken.
PauseTip == 30

InitPause ==
    /\ InitProcess
    /\ tip = PauseTip
    /\ lookback = PauseTip - 1
    /\ stride = 1
    /\ upstream = "ok"
    /\ changes_left = LongChanges
    /\ storage = "ok"
    /\ credentials = AllSet
    /\ store_faults_left = 0

SpecPause == InitPause /\ [][NextLong]_vars

SpecLong == InitLong /\ [][NextLong]_vars

\* ------------------------------------------------------------------------
\* collect_current_only (lines 678-696), the --current-only invocation
\* (lines 698-705)
\* ------------------------------------------------------------------------

\* Lines 681-684: initialize_minio, authenticate, and the mempool call; an
\* exception of the first two is caught at line 694 and False returned.
CurrentStartup ==
    /\ pc = "cur_start"
    /\ \E init_ok \in ReadOutcomes, auth_ok \in AuthOutcomes :
        /\ init_ok \/ store_faults_left > 0
        /\ init_ok \/ auth_ok
        /\ validate_credentials(credentials) \/ auth_ok
        /\ bucket_exists' = (bucket_exists \/ init_ok)
        /\ store_faults_left' = AfterStoreFaults(IF init_ok THEN 0 ELSE 1)
        /\ hist' = [hist EXCEPT
                       !.faults = @ \/ ~init_ok \/ ~auth_ok,
                       !.token_posted =
                           init_ok /\ validate_credentials(credentials)]
        /\ IF ~init_ok \/ ~auth_ok \/ ~validate_credentials(credentials)
           THEN /\ pc' = "cur_done"
                /\ UNCHANGED <<fetch, fstat, wait, last_wait, upstream>>
                /\ changes_left' = IF auth_ok THEN changes_left
                                   ELSE changes_left - 1
           ELSE get_mempool_data /\ pc' = "cur_mempool"
    /\ UNCHANGED <<shutdown_requested, store, envvars, run, m, loop, logvars>>

\* collect_current_mempool_data (lines 538-559) after its call, then the
\* call of collect_current_fee_data (line 685).
CurrentAfterMempool ==
    /\ pc = "cur_mempool"
    /\ FetchDone
    /\ aux_log' = IF fetch.result = "raise" THEN aux_log
                  ELSE Append(aux_log, mempool_object_path)
    /\ hist' = [hist EXCEPT !.faults = @ \/ fetch.result # "data"]
    /\ m' = [m EXCEPT !.mempool_success = (fetch.result # "raise")]
    /\ get_fee_estimates
    /\ pc' = "cur_fee"
    /\ UNCHANGED <<shutdown_requested, storevars, envvars, run, loop,
                   ckpt_log, final_log>>

\* a plausible bug: the current-only invocation writes the collection
\* summary as main does
CurrentAfterCurrentFee_WithSummary ==
    /\ pc = "cur_fee"
    /\ FetchDone
    /\ aux_log' = Append(IF fetch.result = "raise" THEN aux_log
                         ELSE Append(aux_log, current_fee_object_path),
                         summary_object_path)
    /\ hist' = [hist EXCEPT !.faults = @ \/ fetch.result # "data"]
    /\ m' = [m EXCEPT !.fee_success = (fetch.result # "raise")]
    /\ NoFetch
    /\ wait' = NoWait
    /\ pc' = "cur_done"
    /\ UNCHANGED <<shutdown_requested, storevars, envvars, run, loop,
                   ckpt_log, final_log>>

\* collect_current_fee_data (lines 561-582) after its call, and the return
\* of lines 687-692.
CurrentAfterCurrentFee ==
    /\ pc = "cur_fee"
    /\ FetchDone
    /\ aux_log' = IF fetch.result = "raise" THEN aux_log
                  ELSE Append(aux_log, current_fee_object_path)
    /\ hist' = [hist EXCEPT !.faults = @ \/ fetch.result # "data"]
    /\ m' = [m EXCEPT
               !.fee_success = (fetch.result # "raise"),
               !.final_status =
                   IF m.mempool_success /\ fetch.result # "raise"
                   THEN "current_ok" ELSE "current_failed"]
    /\ NoFetch
    /\ wait' = NoWait
    /\ pc' = "cur_done"
    /\ UNCHANGED <<shutdown_requested, storevars, envvars, run, loop,
                   ckpt_log, final_log>>

collect_current_only == CurrentStartup \/ CurrentAfterMempool \/ CurrentAfterCurrentFee

\* The store as some earlier full runs left it.
SeededStores ==
    {[key \in {block_object_path(h) : h \in blocks}
               \cup {fee_object_path(h) : h \in fees} |->
         Record("hash", "data", IF key[1] = "blocks/height_" THEN None ELSE "fees")] :
        blocks \in SUBSET (1..MaxTip), fees \in SUBSET (1..MaxStride)}

InitCurrent ==
    /\ shutdown_requested = FALSE
    /\ store \in SeededStores
    /\ bucket_exists = (store # EmptyStore)
    /\ run = 1
    /\ pc = "cur_start"
    /\ m = InitMain
    /\ loop = InitLoop
    /\ fetch = IdleFetch
    /\ fstat = NoStat
    /\ wait = NoWait
    /\ last_wait = NoLastWait
    /\ ckpt_log = <<>>
    /\ final_log = <<>>
    /\ aux_log = <<>>
    /\ hist = InitHist
    /\ tip = MaxTip
    /\ lookback = MaxLookback
    /\ stride = MaxStride
    /\ upstream = "ok"
    /\ changes_left = MaxChanges
    /\ storage = "faulty"
    /\ credentials \in [CredentialNames -> BOOLEAN]
    /\ store_faults_left = MaxStoreFaults

NextCurrent == Fetching \/ collect_current_only \/ signal_handler

SpecCurrent == InitCurrent /\ [][NextCurrent]_vars

\* ------------------------------------------------------------------------
\* Two invocations of collect_historical_block_data (lines 323-424) at the
\* same time, on the same work list and the same bucket.  Each has its own
\* locals: loop and pc hold one value per invocation.  A call is taken at
\* its return: fetch_data_with_retry returns the data, returns None or
\* raises; put_object replaces the object as a whole.
\* ------------------------------------------------------------------------

Racers == {1, 2}

RaceUnits == 3

MaxRaceFaults == 2

\* what a call may return, None and an exception while faults are left;
\* get_block_data(None) asks for /block/None and never returns data
Returns(arg_ok) ==
    (IF arg_ok THEN {"data"} ELSE {})
    \cup (IF changes_left > 0 \/ ~arg_ok THEN {None, "raise"} ELSE {})

\* lines 334-347: the flag check and the start of the unit
RaceTop(r) ==
    /\ pc[r] = "top"
    /\ IF loop[r].i >= Len(m.blocks_to_collect) \/ shutdown_requested
       THEN /\ pc' = [pc EXCEPT ![r] = "returned"]
            /\ loop' = loop
       ELSE /\ pc' = [pc EXCEPT ![r] = "hash"]
            /\ loop' = [loop EXCEPT ![r].request_count = @ + Calls("block"),
                                    ![r].step = 1,
                                    ![r].block_hash = None]
    /\ UNCHANGED <<shutdown_requested, storevars, envvars, upvars, run, m,
                   fetch, fstat, wait, last_wait, logvars, hist>>

\* line 349 returns or raises (lines 400-410)
RaceHash(r) ==
    /\ pc[r] = "hash"
    /\ \E res \in Returns(TRUE) :
        /\ changes_left' = IF res = "data" THEN changes_left ELSE changes_left - 1
        /\ IF res = "raise"
           THEN /\ loop' = [loop EXCEPT ![r].failed_count = @ + 1,
                                        ![r].i = @ + 1, ![r].step = 0]
                /\ pc' = [pc EXCEPT ![r] = "top"]
           ELSE /\ loop' = [loop EXCEPT ![r].block_hash = res, ![r].step = 2]
                /\ pc' = [pc EXCEPT ![r] = "data"]
    /\ UNCHANGED <<shutdown_requested, storevars, envvars, upstream, run, m,
                   fetch, fstat, wait, last_wait, logvars, hist>>

\* line 356 returns or raises; lines 358-369
RaceData(r) ==
    /\ pc[r] = "data"
    /\ \E res \in Returns(loop[r].block_hash # None) :
        /\ changes_left' = IF res = "data" \/ loop[r].block_hash = None
                           THEN changes_left ELSE changes_left - 1
        /\ IF res = "raise"
           THEN /\ loop' = [loop EXCEPT ![r].failed_count = @ + 1,
                                        ![r].i = @ + 1, ![r].step = 0]
                /\ store' = store
           ELSE /\ loop' = [loop EXCEPT ![r].collected_count = @ + 1,
                                        ![r].written = @ + 1,
                                        ![r].attempted =
                                            Append(@, m.blocks_to_collect[loop[r].i + 1]),
                                        ![r].i = @ + 1, ![r].step = 0]
                /\ store' = save_to_minio(store,
                                Record(loop[r].block_hash, res, "n/a"),
                                block_object_path(m.blocks_to_collect[loop[r].i + 1]),
                                TRUE)
        /\ pc' = [pc EXCEPT ![r] = "top"]
    /\ UNCHANGED <<shutdown_requested, bucket_exists, store_faults_left, envvars,
                   upstream, run, m, fetch, fstat, wait, last_wait, logvars, hist>>

InitRace ==
    /\ shutdown_requested = FALSE
    /\ store = EmptyStore
    /\ bucket_exists = TRUE
    /\ run = 1
    /\ pc = [r \in Racers |-> "top"]
    /\ m = [InitMain EXCEPT !.start_height = 1, !.end_height = RaceUnits,
                            !.blocks_to_collect = BlocksToCollect(1, RaceUnits, {})]
    /\ loop = [r \in Racers |-> [InitLoop EXCEPT !.kind = "block"]]
    /\ fetch = IdleFetch
    /\ fstat = NoStat
    /\ wait = NoWait
    /\ last_wait = NoLastWait
    /\ ckpt_log = <<>>
    /\ final_log = <<>>
    /\ aux_log = <<>>
    /\ hist = InitHist
    /\ tip = RaceUnits
    /\ lookback = RaceUnits
    /\ stride = 1
    /\ upstream = "free"
    /\ changes_left = MaxRaceFaults
    /\ storage = "ok"
    /\ credentials = AllSet
    /\ store_faults_left = 0

NextRace == \E r \in Racers : RaceTop(r) \/ RaceHash(r) \/ RaceData(r)

SpecRace == InitRace /\ [][NextRace]_vars

\* ------------------------------------------------------------------------
\* coingecko_api.py: get_bitcoin_historical_data_range (lines 305-355).
\* Dates are day numbers.  The locals of the function are held in loop:
\* start_dt, end_dt, interval_days, current_dt, historical_data, and as
\* history the number of requests made for each date, counted up to
\* MaxCounted.
\* ------------------------------------------------------------------------

MaxDay == 3

MaxInterval == 2

MaxCounted == 3

\* get_coin_history (lines 209-217) for one date: a snapshot with
\* market_data, a snapshot without it, a snapshot whose market_data lacks a
\* key read at lines 334-336 (KeyError), or the exception fetch_data raises
\* (lines 165-167)
CoinHistoryOutcomes == {"market_data", "no_market_data", "KeyError", "raise"}

\* line 326: while current_dt <= end_dt
RangeWhile ==
    /\ pc = "while"
    /\ pc' = IF loop.current_dt <= loop.end_dt THEN "history" ELSE "returned"
    /\ UNCHANGED <<shutdown_requested, storevars, envvars, upvars, run, m, loop,
                   fetch, fstat, wait, last_wait, logvars, hist>>

\* lines 327-352: the body of the loop for one date
RangeBody ==
    /\ pc = "history"
    /\ \E history \in CoinHistoryOutcomes :
        LET counted == [loop EXCEPT
                          !.requests[loop.current_dt] =
                              IF @ < MaxCounted THEN @ + 1 ELSE @]
        IN  loop' =
              CASE history = "market_data" ->
                     [counted EXCEPT
                        !.historical_data = Append(@, loop.current_dt),
                        !.current_dt = @ + loop.interval_days]
                [] history = "no_market_data" ->
                     [counted EXCEPT !.current_dt = @ + loop.interval_days]
                   \* lines 348-350: except Exception ... continue
                [] OTHER -> counted
    /\ pc' = "while"
    /\ UNCHANGED <<shutdown_requested, storevars, envvars, upvars, run, m,
                   fetch, fstat, wait, last_wait, logvars, hist>>

get_bitcoin_historical_data_range == RangeWhile \/ RangeBody

InitRange ==
    /\ shutdown_requested = FALSE
    /\ store = EmptyStore
    /\ bucket_exists = FALSE
    /\ run = 1
    /\ pc = "while"
    /\ m = InitMain
    /\ \E start_dt \in 0..MaxDay, end_dt \in 0..MaxDay,
          interval_days \in 1..MaxInterval :
         loop = [start_dt |-> start_dt, end_dt |-> end_dt,
                 interval_days |-> interval_days,
                 current_dt |-> start_dt,
                 historical_data |-> <<>>,
                 requests |-> [d \in 0..(MaxDay + MaxInterval) |-> 0]]
    /\ fetch = IdleFetch
    /\ fstat = NoStat
    /\ wait = NoWait
    /\ last_wait = NoLastWait
    /\ ckpt_log = <<>>
    /\ final_log = <<>>
    /\ aux_log = <<>>
    /\ hist = InitHist
    /\ tip = 1
    /\ lookback = 1
    /\ stride = 1
    /\ upstream = "free"
    /\ changes_left = 0
    /\ storage = "ok"
    /\ credentials = AllSet
    /\ store_faults_left = 0

NextRange == get_bitcoin_historical_data_range

\* the function keeps running
SpecRange == InitRange /\ [][NextRange]_vars /\ WF_vars(NextRange)

\* fetch_data_with_retry alone: calls with any request_count, each request
\* answered in any way, a signal at any time.
RequestCounts == {0, 1, BURST_PROTECTION_INTERVAL, 2 * BURST_PROTECTION_INTERVAL}

InitFetch ==
    /\ InitProcess
    /\ tip = 1
    /\ lookback = 1
    /\ stride = 1
    /\ upstream = "free"
    /\ changes_left = 0
    /\ storage = "ok"
    /\ credentials = AllSet
    /\ store_faults_left = 0

\* a caller takes the result of the last call, if any, and makes a call
Call ==
    /\ pc = "start"
    /\ fetch.st \in {"idle", "done"}
    /\ \E ep \in {"height", "hash", "block", "fees", "mempool"},
          request_count \in RequestCounts :
          BeginFetch(ep, TRUE, request_count)
    /\ UNCHANGED <<shutdown_requested, storevars, envvars, run, pc,
                   m, loop, logvars, hist>>

NextFetch == Call \/ FetchRequest \/ FetchNextAttempt \/ signal_handler

SpecFetch == InitFetch /\ [][NextFetch]_vars

\* calculate_historical_ranges alone: any tip, lookback window, stride and
\* sets of existing heights.
PlanTips == 1..(MaxSeed + 2)

InitPlan ==
    /\ shutdown_requested = FALSE
    /\ store = EmptyStore
    /\ bucket_exists = FALSE
    /\ run = 1
    /\ pc = "plan"
    /\ \E eb \in SUBSET (1..MaxSeed), ef \in SUBSET (1..MaxSeed) :
         m = [InitMain EXCEPT !.existing_block_heights = eb,
                              !.existing_fee_heights = ef]
    /\ loop = InitLoop
    /\ fetch = IdleFetch
    /\ fstat = NoStat
    /\ wait = NoWait
    /\ last_wait = NoLastWait
    /\ ckpt_log = <<>>
    /\ final_log = <<>>
    /\ aux_log = <<>>
    /\ hist = InitHist
    /\ tip \in PlanTips
    /\ lookback \in 1..MaxSeed
    /\ stride \in 1..(MaxStride + 1)
    /\ upstream = "ok"
    /\ changes_left = 0
    /\ storage = "ok"
    /\ credentials = AllSet
    /\ store_faults_left = 0

\* lines 274-299 with the tip in hand
Plan ==
    /\ pc = "plan"
    /\ LET plan == calculate_historical_ranges(tip, lookback, stride,
                       m.existing_block_heights, m.existing_fee_heights)
       IN  m' = [m EXCEPT
                   !.start_height = plan.start_height,
                   !.end_height = plan.end_height,
                   !.blocks_to_collect = plan.blocks_to_collect,
                   !.fee_heights_to_collect = plan.fee_heights_to_collect]
    /\ pc' = "planned"
    /\ UNCHANGED <<shutdown_requested, storevars, envvars, run, loop, fetchvars,
                   logvars, hist>>

NextPlan == Plan

SpecPlan == InitPlan /\ [][NextPlan]_vars

\* ------------------------------------------------------------------------
\* The scanners on raw object names (lines 102-143).  An object name is a
\* sequence of pieces of text; the scanners work on the text of the name.
\* ------------------------------------------------------------------------

MaxTail == 3
MaxScanHeight == 111

DigitText == <<"0", "1", "2", "3", "4", "5", "6", "7", "8", "9">>

\* f"{height}" for a height >= 0
RECURSIVE str(_)
str(height) ==
    IF height < 10
    THEN <<DigitText[height + 1]>>
    ELSE Append(str(height \div 10), DigitText[(height % 10) + 1])

DigitValue(piece) == CHOOSE d \in 0..9 : DigitText[d + 1] = piece

IsDigit(piece) == \E d \in 0..9 : DigitText[d + 1] = piece

\* a plausible bug: only the last digit is read
DecimalValue_LastDigit(digits) == DigitValue(digits[Len(digits)])

RECURSIVE DecimalValue(_)
DecimalValue(digits) ==
    IF Len(digits) = 1
    THEN DigitValue(digits[1])
    ELSE 10 * DecimalValue(SubSeq(digits, 1, Len(digits) - 1))
         + DigitValue(digits[Len(digits)])

\* int(height_str): the set holding the decimal value, leading zeros
\* allowed; the empty set stands for a ValueError
int(height_str) ==
    IF height_str = <<>> \/ \E j \in DOMAIN height_str : ~IsDigit(height_str[j])
    THEN {}
    ELSE {DecimalValue(height_str)}

\* text.replace(old, ""): every occurrence goes
replace(text, old) == SelectSeq(text, LAMBDA piece : piece # old)

startswith(text, piece) == text # <<>> /\ text[1] = piece

endswith(text, piece) == text # <<>> /\ text[Len(text)] = piece

\* f"blocks/height_{height}.json" (line 366)
block_object_text(height) == <<"blocks/height_">> \o str(height) \o <<".json">>

\* f"fees/historical/height_{height}_fees.json" (line 480)
fee_object_text(height) ==
    <<"fees/historical/height_">> \o str(height) \o <<"_fees.json">>

\* object_name.split("/")[-1] (line 131): what follows the last "/", which
\* is the "height_" of the last piece that holds a "/"
LastSlash(text) ==
    CHOOSE j \in DOMAIN text :
        /\ text[j] \in {"fees/historical/height_", "fees/historical/"}
        /\ \A k \in DOMAIN text :
               text[k] \in {"fees/historical/height_", "fees/historical/"} => k <= j

filename(text) ==
    (IF text[LastSlash(text)] = "fees/historical/height_"
     THEN <<"height_">> ELSE <<>>)
    \o SubSeq(text, LastSlash(text) + 1, Len(text))

\* lines 107-114: the heights the loop body adds for the listed names
existing_heights(objects) ==
    UNION {int(replace(replace(object_name, "blocks/height_"), ".json")) :
              object_name \in
                  {o \in objects : /\ startswith(o, "blocks/height_")
                                   /\ endswith(o, ".json")}}

\* lines 128-137
existing_fee_heights(objects) ==
    UNION {int(replace(replace(filename(object_name), "height_"), "_fees.json")) :
              object_name \in
                  {o \in objects : /\ startswith(o, "fees/historical/height_")
                                   /\ endswith(o, "_fees.json")}}

\* list_objects(MINIO_BUCKET, prefix=..., recursive=True): the names under
\* the prefix; a bucket that is not there makes the listing raise
list_objects(s, prefix) == {o \in DOMAIN s : o # <<>> /\ o[1] \in prefix}

Tails(pieces) == UNION {[1..n -> pieces] : n \in 0..MaxTail}

BlockTexts ==
    {<<head>> \o tail :
        head \in {"blocks/height_", "blocks/"},
        tail \in Tails({"0", "1", "x", ".json", "blocks/height_"})}

FeeTexts ==
    {<<head>> \o tail :
        head \in {"fees/historical/height_", "fees/historical/"},
        tail \in Tails({"0", "1", "x", "_fees.json", "fees/historical/height_"})}

InitScan ==
    /\ shutdown_requested = FALSE
    /\ \/ /\ bucket_exists = TRUE
          /\ \E objects \in {{}} \cup {{a, b} : a, b \in BlockTexts}
                                 \cup {{a, b} : a, b \in FeeTexts} :
               store = [o \in objects |-> "object"]
       \/ /\ bucket_exists = FALSE
          /\ store = EmptyStore
    /\ run = 1
    /\ pc = "scan"
    /\ m = InitMain
    /\ loop = InitLoop
    /\ fetch = IdleFetch
    /\ fstat = NoStat
    /\ wait = NoWait
    /\ last_wait = NoLastWait
    /\ ckpt_log = <<>>
    /\ final_log = <<>>
    /\ aux_log = <<>>
    /\ hist = InitHist
    /\ tip = 1
    /\ lookback = 1
    /\ stride = 1
    /\ upstream = "ok"
    /\ changes_left = 0
    /\ storage = "ok"
    /\ credentials = AllSet
    /\ store_faults_left = 0

\* lines 595-596: both scans; `except Exception: return set()` when the
\* listing raises
Scan ==
    /\ pc = "scan"
    /\ m' = [m EXCEPT
               !.existing_block_heights =
                   IF bucket_exists
                   THEN existing_heights(list_objects(store,
                            {"blocks/height_", "blocks/"}))
                   ELSE {},
               !.existing_fee_heights =
                   IF bucket_exists
                   THEN existing_fee_heights(list_objects(store,
                            {"fees/historical/height_", "fees/historical/"}))
                   ELSE {}]
    /\ pc' = "scanned"
    /\ UNCHANGED <<shutdown_requested, storevars, envvars, run, loop, fetchvars,
                   logvars, hist>>

NextScan == Scan

\* The scan of a bucket that holds what the loops wrote for the blocks
\* h1, h2 and the fee sample h2 (lines 366-367, 480-481).
MaxKeyHeight == 110

InitKey ==
    /\ shutdown_requested = FALSE
    /\ bucket_exists = TRUE
    /\ \E h1 \in 0..MaxKeyHeight, h2 \in 0..MaxKeyHeight :
         /\ h1 <= h2
         /\ m = [InitMain EXCEPT !.blocks_to_collect = sorted({h1, h2}),
                                 !.fee_heights_to_collect = <<h2>>]
         /\ store = [o \in {block_object_text(h1), block_object_text(h2),
                            fee_object_text(h2)} |-> "object"]
    /\ run = 1
    /\ pc = "scan"
    /\ loop = InitLoop
    /\ fetch = IdleFetch
    /\ fstat = NoStat
    /\ wait = NoWait
    /\ last_wait = NoLastWait
    /\ ckpt_log = <<>>
    /\ final_log = <<>>
    /\ aux_log = <<>>
    /\ hist = InitHist
    /\ tip = 1
    /\ lookback = 1
    /\ stride = 1
    /\ upstream = "ok"
    /\ changes_left = 0
    /\ storage = "ok"
    /\ credentials = AllSet
    /\ store_faults_left = 0

SpecKey == InitKey /\ [][NextScan]_vars

SpecScan == InitScan /\ [][NextScan]_vars

\* ------------------------------------------------------------------------
\* Properties
\* ------------------------------------------------------------------------

StrictlyAscending(w) == \A a, b \in DOMAIN w : a < b => w[a] < w[b]

\* every height and every sample height of the range main() plans over
AllBlocks == {h \in 1..tip : h >= tip - lookback}

AllFeeSamples == {h \in AllBlocks : (h - MinOf(AllBlocks)) % stride = 0}

\* no signal in this invocation, and no failed call or store operation in
\* any invocation so far
Uninterrupted == ~shutdown_requested

FailureFree == ~hist.faults

\* the positions of main() inside a collection loop, before its final
\* checkpoint
LoopPcs == {"top", "call", "pause", "errpause"}

LoopExits == {"exhausted", "shutdown_top", "shutdown_mid", "shutdown_pause", "abort"}

\* C1: for every tip, lookback and completed-block set, blocks_to_collect holds
\* exactly the heights of start_height..current_height that are not
\* completed, without duplicates and in strictly ascending order.
C1_PlanIsRangeMinusCompleted ==
    pc = "planned" =>
        /\ m.end_height = tip
        /\ Range(m.blocks_to_collect) =
               {h \in m.start_height..m.end_height : h \notin m.existing_block_heights}
        /\ StrictlyAscending(m.blocks_to_collect)

C1_Witness ==
    /\ pc = "planned"
    /\ Len(m.blocks_to_collect) >= 2
    /\ m.start_height > 1
    /\ \E h \in m.existing_block_heights : h >= m.start_height /\ h < m.end_height
    /\ \E h \in m.existing_block_heights : h < m.start_height

\* C2: a second run of main() after a first run in which nothing failed and no
\* signal arrived, with the same tip and store, collects no block unit and no
\* fee-sample unit, and leaves the completed sets as the first run left them.
C2_SecondRunCollectsNothing ==
    (/\ run = 2
     /\ pc = "done"
     /\ FailureFree
     /\ Uninterrupted
     /\ ~hist.prev[1].interrupted) =>
        /\ m.blocks_to_collect = <<>>
        /\ m.fee_heights_to_collect = <<>>
        /\ m.block_collected = 0
        /\ m.fee_collected = 0
        /\ final_log = <<>>
        /\ CompletedBlocks = hist.prev[1].blocks
        /\ CompletedFees = hist.prev[1].fees

C2_Witness ==
    /\ run = 2
    /\ pc = "done"
    /\ FailureFree
    /\ Uninterrupted
    /\ ~hist.prev[1].interrupted
    /\ hist.prev[1].block_collected >= 3
    /\ hist.prev[1].fee_collected >= 2

\* C3: a run interrupted by a signal, followed by an uninterrupted run over
\* the same range (nothing else failing), ends with every unit of the range
\* stored, as one uninterrupted run does, and no unit stored more than once.
C3_ResumeCompletesTheRange ==
    (/\ run = 2
     /\ pc = "done"
     /\ FailureFree
     /\ Uninterrupted
     /\ hist.prev[1].interrupted) =>
        /\ CompletedBlocks = AllBlocks
        /\ CompletedFees = AllFeeSamples
        /\ \A key \in DOMAIN hist.writes : hist.writes[key] = 1

C3_Witness ==
    /\ run = 2
    /\ pc = "done"
    /\ FailureFree
    /\ Uninterrupted
    /\ hist.prev[1].interrupted
    /\ hist.prev[1].block_collected = 2
    /\ Cardinality(AllBlocks) = 3
    /\ m.block_collected = 1

\* C4: a 429 answer is followed by a new attempt and takes none of the
\* max_retries attempts: the call never ends for want of attempts after a
\* 429, and when it raises, max_retries attempts have ended in a transient
\* error.
C4_ThrottleTakesNoRetrySlot ==
    fetch.st = "done" =>
        /\ fetch.result # None
        /\ fetch.result = "raise" => fstat.nerr = max_retries

\* C5: a call whose every attempt ends in a transient error issues exactly
\* max_retries requests and then raises, with no sleep after the last
\* attempt; the delay between consecutive requests grows strictly.
C5_RetryCeiling ==
    /\ (fetch.st = "done" /\ fetch.result = "raise" /\ fstat.n429 = 0) =>
           /\ fstat.requests = max_retries
           /\ fstat.acc = 0
           /\ wait = NoWait
    /\ (fstat.n429 = 0 /\ fstat.requests >= 3) => fstat.prev_gap < fstat.gap
    /\ (fstat.n429 = 0 /\ fetch.st = "post") => fstat.requests < max_retries

C5_Witness ==
    /\ fetch.st = "done"
    /\ fetch.result = "raise"
    /\ fstat.n429 = 0
    /\ fstat.requests = max_retries
    /\ fstat.prev_gap > 0

\* C6: once the flag is set the retrying fetch begins no further attempt,
\* and a unit whose fetch went on after the flag was set is not counted in
\* failed_count.
C6_FetchStopsOnShutdown ==
    /\ fstat.after_flag = 0
    /\ ~hist.failed_after_flag

\* C7: a pacing wait, a retry backoff or a retry-after sleep during which
\* the flag is set ends before its full duration has elapsed.
C7_WaitsAreCancellationPoints ==
    (last_wait.kind \in {"pace", "backoff", "throttle"} /\ last_wait.sig) =>
        last_wait.elapsed < last_wait.len

\* C8: the wait before a call of a collection loop is base_delay, plus
\* burst_extra_delay when the loop's request counter is a positive multiple
\* of burst_interval.
C8_BurstProtectionApplied ==
    (pc = "call" /\ fetch.st = "pace" /\ fetch.attempt = 0) =>
        wait.len = RATE_LIMIT_DELAY
                   + (IF loop.request_count > 0
                         /\ loop.request_count % BURST_PROTECTION_INTERVAL = 0
                      THEN Tenths(BURST_PROTECTION_DELAY) ELSE 0)

\* C9: collected_count never exceeds the number of unit objects the loop
\* has written: a unit whose write failed is not counted as collected.
C9_FailedWriteNotCollected == loop.collected_count <= loop.written

\* C10: the final checkpoint of a loop that stopped because failed_count
\* exceeded the ceiling has completed_gracefully = false.
C10_AbortIsNotGraceful ==
    \A k \in DOMAIN final_log :
        final_log[k].exit = "abort" => ~final_log[k].completed_gracefully

\* C11: every exit of a collection loop (work list exhausted, flag seen at the
\* top of an iteration, between the calls of a unit or in a batch pause,
\* failure ceiling exceeded) leads to the final checkpoint, which is written
\* exactly once, under the kind block_collection_final or
\* fee_collection_final, with the collected_count and failed_count at exit;
\* nothing else writes a final checkpoint.
C11_OneFinalCheckpointPerExit ==
    [][/\ (pc \in LoopPcs /\ pc' \notin LoopPcs) =>
              /\ pc' = "final"
              /\ loop'.exit \in LoopExits
              /\ final_log' = final_log
       /\ (pc = "final" /\ pc' # "final") =>
              LET last == final_log'[Len(final_log')]
              IN  /\ Len(final_log') = Len(final_log) + 1
                  /\ SubSeq(final_log', 1, Len(final_log)) = final_log
                  /\ last.checkpoint_type =
                         (IF loop.kind = "block" THEN "block_collection_final"
                          ELSE "fee_collection_final")
                  /\ last.collected_count = loop.collected_count
                  /\ last.failed_count = loop.failed_count
                  /\ pc' \notin LoopPcs
       /\ (pc # "final" /\ run' = run) => final_log' = final_log
      ]_vars

C11_Witness ==
    /\ Len(final_log) = 2
    /\ final_log[1].exit = "exhausted"
    /\ final_log[1].collected_count = LongTip
    /\ final_log[2].exit = "shutdown_mid"
    /\ final_log[2].collected_count > 0

\* C12: whenever the number of units processed so far, collected or failed,
\* has reached a multiple of the cadence (50 blocks, 20 fee samples), a
\* periodic checkpoint for that unit has been written before the next unit
\* starts.
C12_CheckpointEveryCadence ==
    (pc = "top" /\ loop.i > 0 /\ loop.i % CheckpointEvery(loop.kind) = 0) =>
        \E k \in DOMAIN ckpt_log :
            /\ ckpt_log[k].why = "periodic"
            /\ ckpt_log[k].checkpoint_type = CheckpointType(loop.kind)
            /\ ckpt_log[k].i = loop.i - 1

\* the work list of this run that a progress checkpoint of the given kind
\* belongs to, and the key of one of its units
WorkOf(checkpoint_type) ==
    IF checkpoint_type = "block_collection" THEN m.blocks_to_collect
    ELSE m.fee_heights_to_collect

PathOf(checkpoint_type, height) ==
    IF checkpoint_type = "block_collection" THEN <<"blocks/height_", height>>
    ELSE <<"fees/historical/height_", height>>

\* C13: for every progress checkpoint of the run that carries a
\* last_collected_height (periodic or shutdown checkpoint), every unit of
\* the work list at or below that height has an object at its canonical
\* key.
\* Stated for the runs in which no store operation has failed.
C13_LowWaterMark ==
    \A k \in DOMAIN ckpt_log :
        (store_faults_left = MaxStoreFaults
         /\ ckpt_log[k].last_collected_height # NoHeight) =>
            \A h \in Range(WorkOf(ckpt_log[k].checkpoint_type)) :
                h <= ckpt_log[k].last_collected_height =>
                    PathOf(ckpt_log[k].checkpoint_type, h) \in DOMAIN store

\* C14: within one run of a collection loop the units are attempted in
\* strictly ascending height order (so none is attempted twice), one per
\* position of the work list.
C14_AscendingAttempts ==
    /\ StrictlyAscending(loop.attempted)
    /\ pc \in LoopPcs =>
           /\ Len(loop.attempted) \in {loop.i, loop.i + 1}
           /\ loop.attempted = SubSeq(Work, 1, Len(loop.attempted))

C14_Witness ==
    /\ pc = "call"
    /\ loop.kind = "fee"
    /\ Len(loop.attempted) >= 3
    /\ loop.failed_count >= 1
    /\ loop.collected_count >= 1

\* the variables the handler of lines 25-30 does not touch (the histories
\* of the sleep in progress apart)
HandlerLeaves == <<store, bucket_exists, tip, lookback, stride, upstream,
                   changes_left, storage, store_faults_left, run, pc, m, loop,
                   fetch, fstat, last_wait, ckpt_log, final_log, aux_log, hist>>

\* C15: the flag starts false in every process, changes only from false to
\* true and only in a step of the signal handler, which changes nothing
\* else of the program; no step of a loop, of the fetch or of main resets
\* it; a signal arriving when the flag is already set changes nothing.
C15_FlagIsMonotone ==
    /\ ~shutdown_requested
    /\ [][/\ run' # run => ~shutdown_requested'
          /\ (run' = run /\ shutdown_requested) => shutdown_requested'
          /\ (run' = run /\ shutdown_requested' # shutdown_requested) =>
                 UNCHANGED HandlerLeaves
          /\ (signal_handler /\ shutdown_requested) => UNCHANGED vars
         ]_vars

C15_Witness ==
    /\ shutdown_requested
    /\ pc = "done"
    /\ run = 2
    /\ final_log # <<>>
    /\ hist.prev[1].interrupted

\* the completed units the store held when this invocation began
StoredAtStart(kind) ==
    IF run = 1 THEN {}
    ELSE IF kind = "block" THEN hist.prev[run - 1].blocks
    ELSE hist.prev[run - 1].fees

\* a planner pass over the store as it is now
Replanned(kind) ==
    LET plan == calculate_historical_ranges(tip, lookback, stride,
                                            CompletedBlocks, CompletedFees)
    IN  IF kind = "block" THEN plan.blocks_to_collect
        ELSE plan.fee_heights_to_collect

\* C16: the store changes only in the step that follows the last call of a
\* unit's sequence (the second for a block, the third for a fee sample), and
\* only at that unit's key; when the flag is seen between two calls of a
\* unit, the unit has no object (unless it had one when the run began) and
\* a planner pass over the store plans it again.
C16_NoPartialRecord ==
    /\ [][store' # store =>
              /\ pc = "call"
              /\ fetch.st = "done"
              /\ loop.step = (IF loop.kind = "block" THEN 2 ELSE 3)
              /\ Len(loop.attempted) = loop.i + 1
              /\ DOMAIN store' = DOMAIN store \cup {PathOf(CheckpointType(loop.kind), Height)}
              /\ \A key \in DOMAIN store : key # PathOf(CheckpointType(loop.kind), Height)
                                              => store'[key] = store[key]
         ]_vars
    /\ []((pc = "final" /\ loop.exit = "shutdown_mid"
            /\ Height \notin StoredAtStart(loop.kind)) =>
              /\ loop.step < (IF loop.kind = "block" THEN 2 ELSE 3)
              /\ PathOf(CheckpointType(loop.kind), Height) \notin DOMAIN store
              /\ \E k \in DOMAIN Replanned(loop.kind) :
                     Replanned(loop.kind)[k] = Height)

C16_Witness ==
    /\ pc = "final"
    /\ loop.exit = "shutdown_mid"
    /\ loop.kind = "fee"
    /\ loop.step = 2
    /\ loop.i >= 1
    /\ Height \notin StoredAtStart(loop.kind)

\* a record holding the block hash and the payload upstream returned
WellFormed(record) == record.block_hash # None /\ record.data # None

\* C17: a unit is in the scanner's completed set if and only if a
\* well-formed record for it is stored at its canonical key: no record
\* with a missing hash or payload counts as completed.
C17_CompletedIffWellFormed ==
    /\ CompletedBlocks =
           {h \in 1..tip : /\ block_object_path(h) \in DOMAIN store
                           /\ WellFormed(store[block_object_path(h)])}
    /\ CompletedFees =
           {h \in 1..tip : /\ fee_object_path(h) \in DOMAIN store
                           /\ WellFormed(store[fee_object_path(h)])}

\* the final checkpoints of the run of the given kind with the given counts
FinalCheckpoints(checkpoint_type, collected_count, failed_count) ==
    {k \in DOMAIN final_log :
        /\ final_log[k].checkpoint_type = checkpoint_type
        /\ final_log[k].collected_count = collected_count
        /\ final_log[k].failed_count = failed_count}

\* the units of the range without an object when the run began
MissingAtStart(kind) ==
    (IF kind = "block" THEN AllBlocks ELSE AllFeeSamples) \ StoredAtStart(kind)

\* C18: a run in which nothing fails and no signal arrives, over a range of
\* n units of which c had objects, has written exactly n - c new unit
\* objects when it ends, and one final checkpoint with collected_count =
\* n - c and failed_count = 0, for the blocks and for the fee samples.
C18_FullRunCounts ==
    (pc = "done" /\ FailureFree /\ Uninterrupted) =>
        /\ CompletedBlocks \ StoredAtStart("block") = MissingAtStart("block")
        /\ CompletedFees \ StoredAtStart("fee") = MissingAtStart("fee")
        /\ Len(final_log) = 2
        /\ Cardinality(FinalCheckpoints("block_collection_final",
                           Cardinality(MissingAtStart("block")), 0)) = 1
        /\ Cardinality(FinalCheckpoints("fee_collection_final",
                           Cardinality(MissingAtStart("fee")), 0)) = 1

\* C19: when the flag is set after k units of the work list have been
\* collected and before the next unit starts (nothing having failed), the
\* loop starts no further unit, its final checkpoint has collected_count =
\* k, and a planner pass over the store returns exactly the remaining
\* n - k units of the list.
C19_StopAfterK ==
    [][/\ (pc = "top" /\ shutdown_requested /\ loop.i < Len(Work)) =>
              /\ pc' = "final"
              /\ loop'.attempted = loop.attempted
       /\ (/\ pc = "final"
           /\ pc' # "final"
           /\ loop.exit \in {"shutdown_top", "shutdown_pause"}
           /\ FailureFree) =>
              LET k == Len(loop.attempted)
              IN  /\ final_log'[Len(final_log')].collected_count = k
                  /\ Replanned(loop.kind) = SubSeq(Work, k + 1, Len(Work))
                  /\ Len(Replanned(loop.kind)) = Len(Work) - k
      ]_vars

C19_Witness ==
    /\ pc = "fee_gate"
    /\ FailureFree
    /\ Len(final_log) = 1
    /\ final_log[1].exit = "shutdown_top"
    /\ final_log[1].collected_count = 2
    /\ Len(Replanned("block")) = LongTip - 2

C21_CheckpointsAppendOnly ==
    \A j, k \in DOMAIN ckpt_log :
        j < k => ckpt_log[j].path # ckpt_log[k].path

\* C22: when the fetch sequence of a unit raises, failed_count grows by one,
\* collected_count and the store are unchanged, and the loop goes on to the
\* next position of the work list (through the one-second error pause when
\* the flag is not set), unless failed_count now exceeds the ceiling (20
\* for blocks, 10 for fee samples), in which case it stops; the position in
\* the work list never goes back, so a failed unit is not attempted again.
C22_UnitFailureIsSkipped ==
    [][/\ (pc = "call" /\ fetch.st = "done" /\ fetch.result = "raise"
           /\ loop' # loop) =>
              /\ loop'.failed_count = loop.failed_count + 1
              /\ loop'.collected_count = loop.collected_count
              /\ loop'.attempted = loop.attempted
              /\ store' = store
              /\ IF loop'.failed_count > (IF loop.kind = "block" THEN 20 ELSE 10)
                 THEN pc' = "final" /\ loop'.exit = "abort"
                 ELSE IF shutdown_requested
                 THEN pc' = "top" /\ loop'.i = loop.i + 1
                 ELSE pc' = "errpause" /\ loop'.i = loop.i
       /\ (pc = "errpause" /\ pc' # pc) => (pc' = "top" /\ loop'.i = loop.i + 1)
       /\ (pc \in LoopPcs /\ pc' \in LoopPcs) => loop'.i >= loop.i
      ]_vars

C22_Witness ==
    /\ pc = "top"
    /\ loop.kind = "block"
    /\ loop.i = 5
    /\ loop.collected_count = 2
    /\ loop.failed_count = 3
    /\ Cardinality(CompletedBlocks) = 2

\* the block loop of this run stopped because failed_count exceeded the
\* ceiling
BlockLoopAborted ==
    /\ final_log # <<>>
    /\ final_log[1].checkpoint_type = "block_collection_final"
    /\ final_log[1].exit = "abort"

\* C23: after the block loop stopped for excessive failures main does not
\* raise: at the fee gate it enters the fee loop when there are fee samples
\* to collect and the flag is not set, the fee loop writes its own final
\* checkpoint, and main goes on to write the collection summary; until then
\* the process always has a next step of its own to take.
C23_AbortStopsOneWorkSet ==
    /\ [](BlockLoopAborted =>
              /\ pc # "failed"
              /\ pc = "done" => (aux_log # <<>>
                                 /\ aux_log[Len(aux_log)] = summary_object_path)
              /\ (/\ pc \in {"summary", "done"}
                  /\ ~shutdown_requested
                  /\ m.fee_heights_to_collect # <<>>) =>
                     /\ Len(final_log) = 2
                     /\ final_log[2].checkpoint_type = "fee_collection_final")
    /\ [][(/\ BlockLoopAborted
           /\ pc = "fee_gate"
           /\ pc' # pc
           /\ m.fee_heights_to_collect # <<>>
           /\ ~shutdown_requested) => (pc' = "top" /\ loop'.kind = "fee")
         ]_vars
    /\ []((BlockLoopAborted /\ pc # "done") =>
              ENABLED (Fetching \/ Looping \/ Main))

C23_Witness ==
    /\ BlockLoopAborted
    /\ pc = "done"
    /\ ~shutdown_requested
    /\ Len(final_log) = 2
    /\ final_log[1].failed_count = BlockFailureCeiling + 1
    /\ final_log[2].checkpoint_type = "fee_collection_final"
    /\ m.final_status = "completed"

\* C24: after the scan the block result is exactly the set of heights h
\* for which the object blocks/height_{h}.json is in the store (and the fee
\* result likewise for fees/historical/height_{h}_fees.json); names that do
\* not match are dropped, and nothing listed gives the empty set.
C24_ScanIsExact ==
    pc = "scanned" =>
        /\ m.existing_block_heights =
               {h \in 0..MaxScanHeight : block_object_text(h) \in DOMAIN store}
        /\ m.existing_fee_heights =
               {h \in 0..MaxScanHeight : fee_object_text(h) \in DOMAIN store}

\* C25: the planned start height is max(1, tip - lookback); the fee work
\* list holds exactly the heights start, start + stride, ... up to the tip
\* that are not in the completed fee set, whatever the completed block set
\* is, and the block work list holds exactly the heights start..tip that are
\* not in the completed block set, whatever the completed fee set is.
C25_StridedFeeWorkSet ==
    pc = "planned" =>
        LET start == IF tip - lookback > 1 THEN tip - lookback ELSE 1
            strided == {h \in start..tip : (h - start) % stride = 0}
        IN  /\ m.start_height = start
            /\ Range(m.fee_heights_to_collect) = strided \ m.existing_fee_heights
            /\ Range(m.blocks_to_collect) = (start..tip) \ m.existing_block_heights
            /\ \A h \in m.existing_block_heights \ m.existing_fee_heights :
                   h \in strided => h \in Range(m.fee_heights_to_collect)
            /\ \A h \in m.existing_fee_heights \ m.existing_block_heights :
                   h \in start..tip => h \in Range(m.blocks_to_collect)

C25_Witness ==
    /\ pc = "planned"
    /\ tip = 6 /\ lookback = 4 /\ stride = 2
    /\ m.existing_block_heights = {2, 4}
    /\ m.existing_fee_heights = {3, 4}
    /\ m.start_height = 2
    /\ m.fee_heights_to_collect = <<2, 6>>
    /\ m.blocks_to_collect = <<3, 5, 6>>

\* C27: when one of the three settings is missing, the startup of main ends
\* in failure without a token request or any other upstream request, without
\* creating the bucket and without writing any object.
C27_NoPartialRunWithoutCredentials ==
    [][(/\ pc = "start"
        /\ pc' # pc
        /\ \E name \in CredentialNames : ~credentials[name]) =>
           /\ pc' = "failed"
           /\ ~hist'.token_posted
           /\ fetch' = fetch /\ fstat' = fstat
           /\ store' = store
           /\ bucket_exists' = bucket_exists
      ]_vars

\* C28: the current-only invocation writes at most one mempool snapshot and
\* at most one current fee estimate and nothing else: no step of it changes
\* an object under blocks/ or fees/historical/, writes a checkpoint or
\* writes the collection summary.
C28_CurrentOnlyWritesSnapshotsOnly ==
    /\ [](pc \in {"cur_start", "cur_mempool", "cur_fee", "cur_done"} =>
             /\ Cardinality({j \in DOMAIN aux_log :
                                aux_log[j] = "mempool/mempool_snapshot"}) <= 1
             /\ Cardinality({j \in DOMAIN aux_log :
                                aux_log[j] = "fees/current/fee_estimates"}) <= 1
             /\ \A j \in DOMAIN aux_log :
                    aux_log[j] \in {"mempool/mempool_snapshot",
                                    "fees/current/fee_estimates"}
             /\ ckpt_log = <<>>
             /\ final_log = <<>>)
    /\ [][(pc \in {"cur_start", "cur_mempool", "cur_fee", "cur_done"}) =>
             (store' = store)]_vars

C28_Witness ==
    /\ pc = "cur_done"
    /\ aux_log = <<"mempool/mempool_snapshot", "fees/current/fee_estimates">>
    /\ block_object_path(1) \in DOMAIN store
    /\ fee_object_path(1) \in DOMAIN store
    /\ m.final_status = "current_ok"

\* C29: when the N calls a loop has made so far were each answered on their
\* first attempt, the pacing sleeps before them add up to at least N times
\* 5.2 seconds.
C29_PacerLowerBound ==
    loop.paced >= loop.calls * 52

C29_Witness ==
    /\ loop.calls = 100
    /\ loop.paced >= 5200
    /\ loop.kind = "block"
    /\ loop.collected_count = 50

\* C30: the loop enters the batch pause exactly after every 15th collected
\* block and every 30th collected fee sample; the pause has 5 (fee loop: 3)
\* steps of one second, the flag is looked at before each step and after
\* the last, and once it is seen set the loop goes to its final checkpoint
\* and starts no further unit.
C30_BatchPauseInterruptible ==
    /\ [][/\ (pc = "call" /\ pc' # pc /\ loop'.collected_count # loop.collected_count) =>
               (pc' = "pause" <=>
                   loop'.collected_count % (IF loop.kind = "block" THEN 15 ELSE 30) = 0)
          /\ (pc # "call") => (pc' = "pause" => pc = "pause")
          /\ (pc = "pause" /\ loop' # loop) =>
               (/\ loop'.attempted = loop.attempted
                /\ fetch' = fetch
                /\ IF shutdown_requested
                   THEN pc' = "final" /\ loop'.exit = "shutdown_pause"
                        /\ loop'.i = loop.i
                   ELSE IF loop.pause_k < (IF loop.kind = "block" THEN 5 ELSE 3)
                   THEN pc' = "pause" /\ loop'.pause_k = loop.pause_k + 1
                   ELSE pc' = "top" /\ loop'.i = loop.i + 1)
          /\ (loop.exit = "shutdown_pause" /\ loop'.kind = loop.kind) =>
               (loop'.attempted = loop.attempted /\ fetch' = fetch)
         ]_vars
    /\ [](pc = "pause" =>
             loop.pause_k <= (IF loop.kind = "block" THEN 5 ELSE 3))

C30_Witness ==
    /\ pc = "final"
    /\ loop.kind = "fee"
    /\ loop.exit = "shutdown_pause"
    /\ loop.collected_count = 30
    /\ loop.pause_k = 2
    /\ Len(loop.attempted) = 30
    /\ m.block_collected = 30

\* C26: while two runs of the block loop work on the same list against one
\* bucket, an object that holds a complete record of its block (hash and
\* payload) keeps holding a complete record, and when both runs have
\* returned the completed blocks are those that one of them collected.
C26_RaceKeepsRecords ==
    /\ [][\A key \in DOMAIN store :
              (store[key].block_hash # "None" /\ store[key].data # "None") =>
                  (store'[key].block_hash # "None" /\ store'[key].data # "None")
         ]_vars
    /\ []((\A r \in Racers : pc[r] = "returned") =>
             {key[2] : key \in DOMAIN store} =
                 UNION {Range(loop[r].attempted) : r \in Racers})

\* C31: when main has planned, no height whose object is in the store is in
\* the block work list or in the fee work list, whatever the listings
\* returned.
C31_StoredUnitsNeverPlanned ==
    pc = "blk_gate" =>
        /\ \A h \in Range(m.blocks_to_collect) :
               <<"blocks/height_", h>> \notin DOMAIN store
        /\ \A h \in Range(m.fee_heights_to_collect) :
               <<"fees/historical/height_", h>> \notin DOMAIN store

\* C32: a call of fetch_data_with_retry that has ended has returned the
\* body of a successful response or has raised; it has not returned None.
C32_ReturnsDataOrRaises ==
    fetch.st = "done" => fetch.result \in {"data", "raise"}

\* C33: let an earlier run with a tip t1 not above this run's tip and with
\* the same stride have collected all its fee samples, these being the fee
\* objects in the store.  Then this run plans no fee sample inside the
\* earlier run's range.
C33_FeeGridStable ==
    pc = "planned" =>
        \A t1 \in 1..tip :
            LET first == calculate_historical_ranges(t1, lookback, stride, {}, {})
            IN  m.existing_fee_heights = Range(first.fee_heights_to_collect) =>
                    \A h \in Range(m.fee_heights_to_collect) :
                        ~(first.start_height <= h /\ h <= t1)

\* C34: in a collection loop failed_count never exceeds 21 (blocks) resp.
\* 11 (fee samples), and once it exceeds the ceiling of 20 resp. 10 the loop
\* attempts no further unit and makes no further call.
C34_FailureBound ==
    /\ [](pc \in LoopPcs \cup {"final"} =>
             loop.failed_count <= (IF loop.kind = "block" THEN 21 ELSE 11))
    /\ [][(/\ pc \in LoopPcs \cup {"final"}
           /\ loop.failed_count > (IF loop.kind = "block" THEN 20 ELSE 10)) =>
              /\ pc = "final"
              /\ pc' \notin LoopPcs
              /\ fetch' = fetch
              /\ loop'.kind = loop.kind => loop'.attempted = loop.attempted
         ]_vars

C34_Witness ==
    /\ pc = "final"
    /\ loop.kind = "fee"
    /\ loop.failed_count = 11
    /\ loop.exit = "abort"
    /\ m.block_failed = 21

\* C35: at the top of iteration i of a loop collected_count + failed_count
\* = i; a shutdown checkpoint has collected_count + failed_count + remaining
\* = the length of the work list; a loop that went through its whole list
\* ends with collected_count + failed_count = the length of the work list.
C35_CounterConservation ==
    /\ pc = "top" => loop.collected_count + loop.failed_count = loop.i
    /\ \A k \in DOMAIN ckpt_log :
           ckpt_log[k].why = "shutdown" =>
               ckpt_log[k].collected_count + ckpt_log[k].failed_count
                 + ckpt_log[k].remaining
               = Len(IF ckpt_log[k].checkpoint_type = "block_collection"
                     THEN m.blocks_to_collect ELSE m.fee_heights_to_collect)
    /\ \A k \in DOMAIN final_log :
           final_log[k].exit = "exhausted" =>
               final_log[k].collected_count + final_log[k].failed_count
               = Len(IF final_log[k].checkpoint_type = "block_collection_final"
                     THEN m.blocks_to_collect ELSE m.fee_heights_to_collect)

C35_Witness ==
    /\ pc = "final"
    /\ loop.kind = "block"
    /\ loop.exit = "shutdown_top"
    /\ Len(ckpt_log) = 1
    /\ ckpt_log[1].why = "shutdown"
    /\ ckpt_log[1].collected_count = 3
    /\ ckpt_log[1].failed_count = 2
    /\ ckpt_log[1].remaining = LongTip - 5

\* C36: the last_collected_height of a shutdown checkpoint, when there is
\* one, is a height of the work list of this run whose unit has been
\* collected: it is in the work list and its object is in the store.
\* Stated for the runs in which no store operation has failed.
C36_LastCollectedWasCollected ==
    \A k \in DOMAIN ckpt_log :
        (/\ store_faults_left = MaxStoreFaults
         /\ ckpt_log[k].why = "shutdown"
         /\ ckpt_log[k].last_collected_height # NoHeight) =>
            /\ ckpt_log[k].last_collected_height
                   \in Range(IF ckpt_log[k].checkpoint_type = "block_collection"
                             THEN m.blocks_to_collect ELSE m.fee_heights_to_collect)
            /\ (IF ckpt_log[k].checkpoint_type = "block_collection"
                THEN <<"blocks/height_", ckpt_log[k].last_collected_height>>
                ELSE <<"fees/historical/height_", ckpt_log[k].last_collected_height>>)
                   \in DOMAIN store

\* C37: a run whose summary has collection_status completed has collected
\* every block and every fee sample it had planned; in particular none of
\* its loops stopped for excessive failures.
C37_CompletedMeansAllCollected ==
    (pc = "done" /\ m.final_status = "completed") =>
        /\ m.block_collected = Len(m.blocks_to_collect)
        /\ m.fee_collected = Len(m.fee_heights_to_collect)
        /\ \A k \in DOMAIN final_log : final_log[k].exit # "abort"

\* C38: a call makes at most 5 attempts, a loop attempts no unit twice, and
\* a loop that has been entered reaches its final checkpoint, whatever
\* upstream answers and whether or not a signal arrives.
C38_LoopsTerminate ==
    /\ [](fetch.attempt < 5 /\ fstat.requests <= 5)
    /\ [](pc \in LoopPcs \cup {"final"} =>
             \A j, k \in DOMAIN loop.attempted :
                 j < k => loop.attempted[j] < loop.attempted[k])
    /\ ((pc \in LoopPcs /\ loop.kind = "block")
           ~> (pc = "final" /\ loop.kind = "block"))
    /\ ((pc \in LoopPcs /\ loop.kind = "fee")
           ~> (pc = "final" /\ loop.kind = "fee"))

C38_Witness ==
    /\ pc = "final"
    /\ loop.kind = "fee"
    /\ loop.exit = "exhausted"
    /\ loop.failed_count = 1
    /\ loop.collected_count = 2
    /\ m.block_collected = 3

\* C39: get_bitcoin_historical_data_range requests no date twice, goes on
\* to the next date after every fetch whatever its outcome, and returns.
C39_RangeFetchTerminates ==
    /\ [](\A d \in DOMAIN loop.requests : loop.requests[d] <= 1)
    /\ [][pc = "history" =>
              loop'.current_dt = loop.current_dt + loop.interval_days]_vars
    /\ <>(pc = "returned")

\* C40: when the bucket holds the objects written under the block keys of
\* the heights h1, h2 and under the fee key of h2, the block scan yields
\* exactly h1 and h2 and the fee scan exactly h2: each key is read back as
\* its height, no key is read by the other scanner, and two heights have
\* two keys.
C40_KeyRoundTrip ==
    pc = "scanned" =>
        /\ m.existing_block_heights = Range(m.blocks_to_collect)
        /\ m.existing_fee_heights = Range(m.fee_heights_to_collect)
        /\ Cardinality({o \in DOMAIN store : o[1] = "blocks/height_"})
               = Len(m.blocks_to_collect)
        /\ Cardinality({o \in DOMAIN store : o[1] = "fees/historical/height_"}) = 1

C40_Witness ==
    /\ pc = "scanned"
    /\ m.existing_block_heights = {9, 110}
    /\ m.existing_fee_heights = {110}
    /\ Cardinality(DOMAIN store) = 3

====
